---------------------------- MODULE Spec2Model ----------------------------
(***************************************************************************)
(* A model of cicero_maru_utils: the MarU report versions and column       *)
(* labels, the source schema and the municipality name/number split of     *)
(* xlsx_to_parquet, the output variable transforms of processed_vars, and  *)
(* the main loop of maru_parquet_to_lokfram_variables.                     *)
(*                                                                         *)
(* Strings the code only compares are TLA+ strings.  Strings the code      *)
(* takes apart or builds (municipality labels, year_month) are sequences   *)
(* of one-character strings, so that the regular expression and the        *)
(* concatenations are computed and not assumed.                            *)
(***************************************************************************)
EXTENDS Integers, Sequences, FiniteSets, TLC

VARIABLES
  version,      \* the version tag the caller passes
  \* the schema calls
  colsRes,      \* outcome of get_maru_cols_original(version)
  extColsRes,   \* outcome of get_maru_cols(version)
  schemaRes,    \* outcome of get_source_schema(version)
  munRes,       \* outcome of process_municipality_data(schema)
  rawFile,      \* the rows of the report file read
  fileRes,      \* outcome of process_excel_file(file, schema, municipality schema)
  \* the transform calls
  inputFrame,   \* the typed input frame
  aggCall,      \* the processing function called and its output_value_col
  aggRes,       \* outcome of the processing function
  \* the construction of an output variable spec
  ctorArgs,     \* the arguments OutputVarSpec is constructed with
  newSpec,      \* outcome of OutputVarSpec(...)
  \* main of maru_parquet_to_lokfram_variables
  args,         \* the command line and the files it names
  pc,           \* where main is
  input_obj,    \* the rows of the input for the municipality
  output_obj,   \* the output workbook
  loop_index,   \* the position in output_var_specs.items()
  curr_var,     \* the local variable curr_var
  started,      \* the variables whose processing has begun, in order
  stderr,       \* what was written to sys.stderr
  exception,    \* the exception in flight or propagated, if any
  \* main of xlsx_to_parquet
  convArgs,     \* the command line: the search directory and the output file
  convPc,       \* where main is
  data_files,   \* the .xlsx files found
  all_dfs,      \* the frames of the files processed so far
  read_files,   \* the files whose processing has begun, in order
  parquet,      \* what this run wrote to the output file
  stdout        \* what was printed about errors

schemaVars == <<colsRes, extColsRes, schemaRes, munRes, rawFile, fileRes>>
aggVars == <<inputFrame, aggCall, aggRes>>
mainVars == <<args, pc, input_obj, output_obj, loop_index, curr_var, started,
              stderr, exception>>
ctorVars == <<ctorArgs, newSpec>>
convVars == <<convArgs, convPc, data_files, all_dfs, read_files, parquet,
              stdout>>
vars == <<version, schemaVars, aggVars, ctorVars, mainVars, convVars>>

(***************************************************************************)
(* Python values                                                           *)
(***************************************************************************)
\* Python's None where a string is expected.
None == "<None>"
\* A polars null in a column of character sequences.
Null == <<"<null>">>

\* The outcome of a call: not made yet, a returned value, or a raised exception.
NotCalled == [status |-> "not_called"]
Return(v) == [status |-> "returned", value |-> v]
Raise(type, msg) == [status |-> "raised", type |-> type, msg |-> msg]

Range(s) == {s[i] : i \in DOMAIN s}

\* dict | dict: the keys of both, the right operand's value where both have the key.
DictUnion(a, b) ==
  [k \in (DOMAIN a) \cup (DOMAIN b) |-> IF k \in DOMAIN b THEN b[k] ELSE a[k]]

(***************************************************************************)
(* versions.py                                                             *)
(***************************************************************************)
V20241128 == "20241128"
V20250304 == "20250304"
\* The members of the StrEnum, in definition order.
MaruVersionMembers == <<V20241128, V20250304>>
MaruVersion == Range(MaruVersionMembers)

(***************************************************************************)
(* labels/columns.py                                                       *)
(***************************************************************************)
\* The dataclass defaults, which are also what the class attributes
\* MaruColOrig.<field> evaluate to.
MaruColOrig ==
  [ year |-> "year",
    year_month |-> "year_month",
    gt_group |-> "gt_group",
    vessel_type |-> "vessel_type",
    phase |-> "phase",
    voyage_type |-> "voyage_type",
    ez_area_name |-> "maritime_borders_norwegian_economic_zone_area_name",
    mgmt_plan_area_name |-> "management_plan_marine_areas_area_name_norwegian",
    municipality_name |-> "municipality_name",
    county_name |-> "county_name",
    municipality_voyage_type |-> "municipality_voyage_type",
    time_sec |-> "sum_seconds",
    energy_kwh |-> "sum_kwh",
    kwh_battery |-> None,
    kwh_shore_power |-> None,
    fuel |-> "sum_fuel",
    co2 |-> "sum_co2",
    nmvoc |-> "sum_nmvoc",
    co |-> "sum_co",
    ch4 |-> "sum_ch4",
    n2o |-> "sum_n2o",
    sox |-> "sum_sox",
    pm10 |-> "sum_pm10",
    pm2_5 |-> "sum_pm2_5",
    nox |-> "sum_nox",
    bc |-> "sum_bc",
    co2e |-> "sum_co2e",
    distance_km |-> "distance_kilometers",
    version |-> "version",
    timestamp |-> "timestamp_utc_generated" ]

\* The fields MaruCol adds to MaruColOrig.
MaruColAdded ==
  [ municipality_number |-> "municipality_number",
    month |-> "month" ]

\* MaruCol(**fields): the given fields, and the defaults of the added ones.
\* MaruCol itself (no fields given) is what the class attributes MaruCol.<field>
\* evaluate to.
MaruColOf(fields) == DictUnion(MaruColAdded, fields)
MaruCol == MaruColOf(MaruColOrig)

\* MaruVersion(version): the member with that value, or the enum's ValueError.
NotAValidMaruVersion(tag) ==
  Raise("ValueError", <<"'", tag, "' is not a valid MaruVersion">>)

\* The message of the else branch: the valid versions joined by '", "' (the
\* backquotes around the word version are written as quotes here).
InvalidVersionMessage ==
  <<"Invalid value passed in 'version'. Valid values are: ",
    MaruVersionMembers[1], "\", \"", MaruVersionMembers[2]>>

\* Fault: the later version names the battery column only.
ColsFor20250304_BatteryOnly ==
  [MaruColOrig EXCEPT !.kwh_battery = "sum_kwh_battery"]

ColsFor20250304 ==
  [MaruColOrig EXCEPT !.kwh_battery = "sum_kwh_battery",
                      !.kwh_shore_power = "sum_kwh_shore_power"]

\* Fault: no conversion to the enum, and the first version as the default.
get_maru_cols_original_defaulting(tag) ==
  IF tag = V20250304 THEN Return(ColsFor20250304) ELSE Return(MaruColOrig)

get_maru_cols_original(tag) ==
  IF tag \notin MaruVersion THEN NotAValidMaruVersion(tag)
  ELSE IF tag = V20241128 THEN Return(MaruColOrig)
  ELSE IF tag = V20250304 THEN Return(ColsFor20250304)
  ELSE Raise("ValueError", InvalidVersionMessage)

get_maru_cols(tag) ==
  LET orig_cols == get_maru_cols_original(tag)
  IN  IF orig_cols.status = "raised" THEN orig_cols
      ELSE Return(MaruColOf(orig_cols.value))

(***************************************************************************)
(* scripts/xlsx_to_parquet.py: get_source_schema                           *)
(***************************************************************************)
Enum(categories) == [kind |-> "Enum", categories |-> categories]
Float64 == [kind |-> "Float64"]
Int16 == [kind |-> "Int16"]
Int8 == [kind |-> "Int8"]
String == [kind |-> "String"]
DatetimeMsUTC == [kind |-> "Datetime", time_unit |-> "ms", time_zone |-> "UTC"]

GtGroupCategories ==
  <<"Unknown", "gt1, 0-399", "gt2, 400-999", "gt3, 1000-2999",
    "gt4, 3000-4999", "gt5, 5000-9999", "gt6, 10000-24999",
    "gt7, 25000-49999", "gt8, 50000-99999", "gt9, >=100 000">>

VesselTypeCategories ==
  <<"Andre aktiviteter", "Andre offshorefartøy", "Andre servicefartøy",
    "Container/RoRo", "Cruise", "Fiskefartøy", "Gasstankskip",
    "Havbruk", "Kjemikalie-/produkttanker", "Offshore", "Oljetanker",
    "Passasjer", "Stykkgods", "Tørrbulk">>

PhaseCategories ==
  <<"Anchor", "Aquacultur", "Cruise", "Dynamic positioning offshore",
    "Electric shore power", "Maneuver", "Node (berth)">>

VoyageTypeCategories ==
  <<"Berthed", "Domestic", "International in", "International out",
    "Transitt">>

EzAreaCategories ==
  <<"Fiskerisonen ved Jan Mayen", "Fiskevernsonen ved Svalbard",
    "Norges økonomiske sone", "Territorialområde">>

MgmtPlanAreaCategories ==
  <<"Barentshavet-Lofoten", "Kystområde Barentshavet",
    "Kystområde Nordsjøen", "Kystområde Norskehavet", "Nordsjøen-Skagerrak",
    "Norskehavet">>

CountyCategories ==
  <<"Agder", "Akershus", "Buskerud", "Finnmark", "Innlandet",
    "Møre og Romsdal", "Nordland", "Oslo", "Rogaland", "Svalbard",
    "Telemark", "Troms", "Trøndelag", "Vestfold", "Vestland", "Østfold">>

MunicipalityVoyageTypeCategories ==
  <<"Berthed", "Departure or destination", "Local", "Transit">>

VersionCategories == <<"v1.5.0">>

\* xlsx_to_parquet.py:70-156, the original list of combined labels, one character per element.
MunicipalityOriginal ==
  << <<"A","l","s","t","a","h","a","u","g"," ","(","1","8","2","0",")">>,
     <<"A","l","t","a"," ","(","5","6","0","1",")">>,
     <<"A","l","v","e","r"," ","(","4","6","3","1",")">>,
     <<"A","n","d","ø","y"," ","(","1","8","7","1",")">>,
     <<"A","r","e","n","d","a","l"," ","(","4","2","0","3",")">>,
     <<"A","s","k","e","r"," ","(","3","2","0","3",")">>,
     <<"A","s","k","v","o","l","l"," ","(","4","6","4","5",")">>,
     <<"A","s","k","ø","y"," ","(","4","6","2","7",")">>,
     <<"A","u","k","r","a"," ","(","1","5","4","7",")">>,
     <<"A","u","r","e"," ","(","1","5","7","6",")">>,
     <<"A","u","r","l","a","n","d"," ","(","4","6","4","1",")">>,
     <<"A","u","r","s","k","o","g","-","H","ø","l","a","n","d"," ","(","3","2","2","6",")">>,
     <<"A","u","s","t","e","v","o","l","l"," ","(","4","6","2","5",")">>,
     <<"A","u","s","t","r","h","e","i","m"," ","(","4","6","3","2",")">>,
     <<"A","v","e","r","ø","y"," ","(","1","5","5","4",")">>,
     <<"B","a","l","s","f","j","o","r","d"," ","(","5","5","3","2",")">>,
     <<"B","a","m","b","l","e"," ","(","4","0","1","2",")">>,
     <<"B","a","r","d","u"," ","(","5","5","2","0",")">>,
     <<"B","e","i","a","r","n"," ","(","1","8","3","9",")">>,
     <<"B","e","r","g","e","n"," ","(","4","6","0","1",")">>,
     <<"B","e","r","l","e","v","å","g"," ","(","5","6","3","0",")">>,
     <<"B","i","n","d","a","l"," ","(","1","8","1","1",")">>,
     <<"B","i","r","k","e","n","e","s"," ","(","4","2","1","6",")">>,
     <<"B","j","e","r","k","r","e","i","m"," ","(","1","1","1","4",")">>,
     <<"B","j","ø","r","n","a","f","j","o","r","d","e","n"," ","(","4","6","2","4",")">>,
     <<"B","o","d","ø"," ","(","1","8","0","4",")">>,
     <<"B","o","k","n"," ","(","1","1","4","5",")">>,
     <<"B","r","e","m","a","n","g","e","r"," ","(","4","6","4","8",")">>,
     <<"B","r","ø","n","n","ø","y"," ","(","1","8","1","3",")">>,
     <<"B","y","g","l","a","n","d"," ","(","4","2","2","0",")">>,
     <<"B","y","k","l","e"," ","(","4","2","2","2",")">>,
     <<"B","å","t","s","f","j","o","r","d"," ","(","5","6","3","2",")">>,
     <<"B","æ","r","u","m"," ","(","3","2","0","1",")">>,
     <<"B","ø"," ","(","1","8","6","7",")">>,
     <<"B","ø","m","l","o"," ","(","4","6","1","3",")">>,
     <<"D","o","v","r","e"," ","(","3","4","3","1",")">>,
     <<"D","r","a","m","m","e","n"," ","(","3","3","0","1",")">>,
     <<"D","r","a","n","g","e","d","a","l"," ","(","4","0","1","6",")">>,
     <<"D","y","r","ø","y"," ","(","5","5","2","8",")">>,
     <<"D","ø","n","n","a"," ","(","1","8","2","7",")">>,
     <<"E","i","d","f","j","o","r","d"," ","(","4","6","1","9",")">>,
     <<"E","i","d","s","k","o","g"," ","(","3","4","1","6",")">>,
     <<"E","i","d","s","v","o","l","l"," ","(","3","2","4","0",")">>,
     <<"E","i","g","e","r","s","u","n","d"," ","(","1","1","0","1",")">>,
     <<"E","n","e","b","a","k","k"," ","(","3","2","2","0",")">>,
     <<"E","n","g","e","r","d","a","l"," ","(","3","4","2","5",")">>,
     <<"E","t","n","e"," ","(","4","6","1","1",")">>,
     <<"E","t","n","e","d","a","l"," ","(","3","4","5","0",")">>,
     <<"E","v","e","n","e","s"," ","(","1","8","5","3",")">>,
     <<"E","v","j","e"," ","o","g"," ","H","o","r","n","n","e","s"," ","(","4","2","1","9",")">>,
     <<"F","a","r","s","u","n","d"," ","(","4","2","0","6",")">>,
     <<"F","a","u","s","k","e"," ","(","1","8","4","1",")">>,
     <<"F","e","d","j","e"," ","(","4","6","3","3",")">>,
     <<"F","i","t","j","a","r"," ","(","4","6","1","5",")">>,
     <<"F","j","a","l","e","r"," ","(","4","6","4","6",")">>,
     <<"F","j","o","r","d"," ","(","1","5","7","8",")">>,
     <<"F","l","a","k","s","t","a","d"," ","(","1","8","5","9",")">>,
     <<"F","l","a","t","a","n","g","e","r"," ","(","5","0","4","9",")">>,
     <<"F","l","e","k","k","e","f","j","o","r","d"," ","(","4","2","0","7",")">>,
     <<"F","l","å"," ","(","3","3","2","0",")">>,
     <<"F","o","l","l","d","a","l"," ","(","3","4","2","9",")">>,
     <<"F","r","e","d","r","i","k","s","t","a","d"," ","(","3","1","0","7",")">>,
     <<"F","r","o","g","n"," ","(","3","2","1","4",")">>,
     <<"F","r","o","l","a","n","d"," ","(","4","2","1","4",")">>,
     <<"F","r","o","s","t","a"," ","(","5","0","3","6",")">>,
     <<"F","r","ø","y","a"," ","(","5","0","1","4",")">>,
     <<"F","æ","r","d","e","r"," ","(","3","9","1","1",")">>,
     <<"G","a","m","v","i","k"," ","(","5","6","2","6",")">>,
     <<"G","i","l","d","e","s","k","å","l"," ","(","1","8","3","8",")">>,
     <<"G","i","s","k","e"," ","(","1","5","3","2",")">>,
     <<"G","j","e","m","n","e","s"," ","(","1","5","5","7",")">>,
     <<"G","j","e","r","d","r","u","m"," ","(","3","2","3","0",")">>,
     <<"G","j","e","r","s","t","a","d"," ","(","4","2","1","1",")">>,
     <<"G","j","e","s","d","a","l"," ","(","1","1","2","2",")">>,
     <<"G","j","ø","v","i","k"," ","(","3","4","0","7",")">>,
     <<"G","l","o","p","p","e","n"," ","(","4","6","5","0",")">>,
     <<"G","o","l"," ","(","3","3","2","4",")">>,
     <<"G","r","a","n"," ","(","3","4","4","6",")">>,
     <<"G","r","a","n","e"," ","(","1","8","2","5",")">>,
     <<"G","r","a","t","a","n","g","e","n"," ","(","5","5","1","6",")">>,
     <<"G","r","i","m","s","t","a","d"," ","(","4","2","0","2",")">>,
     <<"G","u","l","e","n"," ","(","4","6","3","5",")">>,
     <<"H","a","d","s","e","l"," ","(","1","8","6","6",")">>,
     <<"H","a","l","d","e","n"," ","(","3","1","0","1",")">>,
     <<"H","a","m","a","r"," ","(","3","4","0","3",")">>,
     <<"H","a","m","a","r","ø","y"," ","(","1","8","7","5",")">>,
     <<"H","a","m","m","e","r","f","e","s","t"," ","(","5","6","0","3",")">>,
     <<"H","a","r","a","m"," ","(","1","5","8","0",")">>,
     <<"H","a","r","e","i","d"," ","(","1","5","1","7",")">>,
     <<"H","a","r","s","t","a","d"," ","(","5","5","0","3",")">>,
     <<"H","a","s","v","i","k"," ","(","5","6","1","6",")">>,
     <<"H","a","t","t","f","j","e","l","l","d","a","l"," ","(","1","8","2","6",")">>,
     <<"H","a","u","g","e","s","u","n","d"," ","(","1","1","0","6",")">>,
     <<"H","e","i","m"," ","(","5","0","5","5",")">>,
     <<"H","e","m","n","e","s"," ","(","1","8","3","2",")">>,
     <<"H","e","r","ø","y"," ","(","1","5","1","5",")">>,
     <<"H","e","r","ø","y"," ","(","1","8","1","8",")">>,
     <<"H","i","t","r","a"," ","(","5","0","5","6",")">>,
     <<"H","j","e","l","m","e","l","a","n","d"," ","(","1","1","3","3",")">>,
     <<"H","o","l"," ","(","3","3","3","0",")">>,
     <<"H","o","l","e"," ","(","3","3","1","0",")">>,
     <<"H","o","l","m","e","s","t","r","a","n","d"," ","(","3","9","0","3",")">>,
     <<"H","o","r","t","e","n"," ","(","3","9","0","1",")">>,
     <<"H","u","r","d","a","l"," ","(","3","2","4","2",")">>,
     <<"H","u","s","t","a","d","v","i","k","a"," ","(","1","5","7","9",")">>,
     <<"H","v","a","l","e","r"," ","(","3","1","1","0",")">>,
     <<"H","y","l","l","e","s","t","a","d"," ","(","4","6","3","7",")">>,
     <<"H","å"," ","(","1","1","1","9",")">>,
     <<"H","ø","y","a","n","g","e","r"," ","(","4","6","3","8",")">>,
     <<"H","ø","y","l","a","n","d","e","t"," ","(","5","0","4","6",")">>,
     <<"I","b","e","s","t","a","d"," ","(","5","5","1","4",")">>,
     <<"I","n","d","e","r","ø","y"," ","(","5","0","5","3",")">>,
     <<"I","n","d","r","e"," ","F","o","s","e","n"," ","(","5","0","5","4",")">>,
     <<"I","n","d","r","e"," ","Ø","s","t","f","o","l","d"," ","(","3","1","1","8",")">>,
     <<"I","v","e","l","a","n","d"," ","(","4","2","1","8",")">>,
     <<"J","e","v","n","a","k","e","r"," ","(","3","2","3","6",")">>,
     <<"K","a","r","a","s","j","o","k"," ","(","5","6","1","0",")">>,
     <<"K","a","r","l","s","ø","y"," ","(","5","5","3","4",")">>,
     <<"K","a","r","m","ø","y"," ","(","1","1","4","9",")">>,
     <<"K","a","u","t","o","k","e","i","n","o"," ","(","5","6","1","2",")">>,
     <<"K","i","n","n"," ","(","4","6","0","2",")">>,
     <<"K","l","e","p","p"," ","(","1","1","2","0",")">>,
     <<"K","o","n","g","s","v","i","n","g","e","r"," ","(","3","4","0","1",")">>,
     <<"K","r","a","g","e","r","ø"," ","(","4","0","1","4",")">>,
     <<"K","r","i","s","t","i","a","n","s","a","n","d"," ","(","4","2","0","4",")">>,
     <<"K","r","i","s","t","i","a","n","s","u","n","d"," ","(","1","5","0","5",")">>,
     <<"K","r","ø","d","s","h","e","r","a","d"," ","(","3","3","1","8",")">>,
     <<"K","v","a","m"," ","(","4","6","2","2",")">>,
     <<"K","v","i","n","e","s","d","a","l"," ","(","4","2","2","7",")">>,
     <<"K","v","i","n","n","h","e","r","a","d"," ","(","4","6","1","7",")">>,
     <<"K","v","i","t","e","s","e","i","d"," ","(","4","0","2","8",")">>,
     <<"K","v","i","t","s","ø","y"," ","(","1","1","4","4",")">>,
     <<"K","v","æ","f","j","o","r","d"," ","(","5","5","1","0",")">>,
     <<"K","v","æ","n","a","n","g","e","n"," ","(","5","5","4","6",")">>,
     <<"K","å","f","j","o","r","d"," ","(","5","5","4","0",")">>,
     <<"L","a","r","v","i","k"," ","(","3","9","0","9",")">>,
     <<"L","a","v","a","n","g","e","n"," ","(","5","5","1","8",")">>,
     <<"L","e","b","e","s","b","y"," ","(","5","6","2","4",")">>,
     <<"L","e","i","r","f","j","o","r","d"," ","(","1","8","2","2",")">>,
     <<"L","e","k","a"," ","(","5","0","5","2",")">>,
     <<"L","e","v","a","n","g","e","r"," ","(","5","0","3","7",")">>,
     <<"L","i","e","r"," ","(","3","3","1","2",")">>,
     <<"L","i","e","r","n","e"," ","(","5","0","4","2",")">>,
     <<"L","i","l","l","e","h","a","m","m","e","r"," ","(","3","4","0","5",")">>,
     <<"L","i","l","l","e","s","a","n","d"," ","(","4","2","1","5",")">>,
     <<"L","i","l","l","e","s","t","r","ø","m"," ","(","3","2","0","5",")">>,
     <<"L","i","n","d","e","s","n","e","s"," ","(","4","2","0","5",")">>,
     <<"L","o","m"," ","(","3","4","3","4",")">>,
     <<"L","o","p","p","a"," ","(","5","6","1","4",")">>,
     <<"L","u","n","d"," ","(","1","1","1","2",")">>,
     <<"L","u","n","n","e","r"," ","(","3","2","3","4",")">>,
     <<"L","u","r","ø","y"," ","(","1","8","3","4",")">>,
     <<"L","u","s","t","e","r"," ","(","4","6","4","4",")">>,
     <<"L","y","n","g","d","a","l"," ","(","4","2","2","5",")">>,
     <<"L","y","n","g","e","n"," ","(","5","5","3","6",")">>,
     <<"L","æ","r","d","a","l"," ","(","4","6","4","2",")">>,
     <<"L","ø","d","i","n","g","e","n"," ","(","1","8","5","1",")">>,
     <<"M","a","l","v","i","k"," ","(","5","0","3","1",")">>,
     <<"M","a","s","f","j","o","r","d","e","n"," ","(","4","6","3","4",")">>,
     <<"M","e","l","h","u","s"," ","(","5","0","2","8",")">>,
     <<"M","e","l","ø","y"," ","(","1","8","3","7",")">>,
     <<"M","i","d","t","-","T","e","l","e","m","a","r","k"," ","(","4","0","2","0",")">>,
     <<"M","i","d","t","r","e"," ","G","a","u","l","d","a","l"," ","(","5","0","2","7",")">>,
     <<"M","o","d","a","l","e","n"," ","(","4","6","2","9",")">>,
     <<"M","o","d","u","m"," ","(","3","3","1","6",")">>,
     <<"M","o","l","d","e"," ","(","1","5","0","6",")">>,
     <<"M","o","s","k","e","n","e","s"," ","(","1","8","7","4",")">>,
     <<"M","o","s","s"," ","(","3","1","0","3",")">>,
     <<"M","å","l","s","e","l","v"," ","(","5","5","2","4",")">>,
     <<"M","å","s","ø","y"," ","(","5","6","1","8",")">>,
     <<"N","a","m","s","o","s"," ","(","5","0","0","7",")">>,
     <<"N","a","m","s","s","k","o","g","a","n"," ","(","5","0","4","4",")">>,
     <<"N","a","r","v","i","k"," ","(","1","8","0","6",")">>,
     <<"N","e","s"," ","(","3","2","2","8",")">>,
     <<"N","e","s","n","a"," ","(","1","8","2","8",")">>,
     <<"N","e","s","o","d","d","e","n"," ","(","3","2","1","2",")">>,
     <<"N","e","s","s","e","b","y"," ","(","5","6","3","6",")">>,
     <<"N","i","t","t","e","d","a","l"," ","(","3","2","3","2",")">>,
     <<"N","o","m","e"," ","(","4","0","1","8",")">>,
     <<"N","o","r","d","-","O","d","a","l"," ","(","3","4","1","4",")">>,
     <<"N","o","r","d","k","a","p","p"," ","(","5","6","2","0",")">>,
     <<"N","o","r","d","r","e"," ","F","o","l","l","o"," ","(","3","2","0","7",")">>,
     <<"N","o","r","d","r","e"," ","L","a","n","d"," ","(","3","4","4","8",")">>,
     <<"N","o","r","d","r","e","i","s","a"," ","(","5","5","4","4",")">>,
     <<"N","o","r","e"," ","o","g"," ","U","v","d","a","l"," ","(","3","3","3","8",")">>,
     <<"N","o","t","o","d","d","e","n"," ","(","4","0","0","5",")">>,
     <<"N","æ","r","ø","y","s","u","n","d"," ","(","5","0","6","0",")">>,
     <<"O","p","p","d","a","l"," ","(","5","0","2","1",")">>,
     <<"O","r","k","l","a","n","d"," ","(","5","0","5","9",")">>,
     <<"O","s","e","n"," ","(","5","0","2","0",")">>,
     <<"O","s","l","o"," ","(","0","3","0","1",")">>,
     <<"O","s","t","e","r","ø","y"," ","(","4","6","3","0",")">>,
     <<"O","v","e","r","h","a","l","l","a"," ","(","5","0","4","7",")">>,
     <<"P","o","r","s","a","n","g","e","r"," ","(","5","6","2","2",")">>,
     <<"P","o","r","s","g","r","u","n","n"," ","(","4","0","0","1",")">>,
     <<"R","a","k","k","e","s","t","a","d"," ","(","3","1","2","0",")">>,
     <<"R","a","n","a"," ","(","1","8","3","3",")">>,
     <<"R","a","n","d","a","b","e","r","g"," ","(","1","1","2","7",")">>,
     <<"R","a","u","m","a"," ","(","1","5","3","9",")">>,
     <<"R","e","n","d","a","l","e","n"," ","(","3","4","2","4",")">>,
     <<"R","i","n","d","a","l"," ","(","5","0","6","1",")">>,
     <<"R","i","n","g","e","r","i","k","e"," ","(","3","3","0","5",")">>,
     <<"R","i","n","g","s","a","k","e","r"," ","(","3","4","1","1",")">>,
     <<"R","i","s","ø","r"," ","(","4","2","0","1",")">>,
     <<"R","o","l","l","a","g"," ","(","3","3","3","6",")">>,
     <<"R","ø","y","r","v","i","k"," ","(","5","0","4","3",")">>,
     <<"R","å","d","e"," ","(","3","1","1","2",")">>,
     <<"R","ø","d","ø","y"," ","(","1","8","3","6",")">>,
     <<"R","ø","s","t"," ","(","1","8","5","6",")">>,
     <<"S","a","l","a","n","g","e","n"," ","(","5","5","2","2",")">>,
     <<"S","a","l","t","d","a","l"," ","(","1","8","4","0",")">>,
     <<"S","a","m","n","a","n","g","e","r"," ","(","4","6","2","3",")">>,
     <<"S","a","n","d","e"," ","(","1","5","1","4",")">>,
     <<"S","a","n","d","e","f","j","o","r","d"," ","(","3","9","0","7",")">>,
     <<"S","a","n","d","n","e","s"," ","(","1","1","0","8",")">>,
     <<"S","a","r","p","s","b","o","r","g"," ","(","3","1","0","5",")">>,
     <<"S","a","u","d","a"," ","(","1","1","3","5",")">>,
     <<"S","e","l"," ","(","3","4","3","7",")">>,
     <<"S","e","l","b","u"," ","(","5","0","3","2",")">>,
     <<"S","e","n","j","a"," ","(","5","5","3","0",")">>,
     <<"S","i","g","d","a","l"," ","(","3","3","3","2",")">>,
     <<"S","i","l","j","a","n"," ","(","4","0","1","0",")">>,
     <<"S","i","r","d","a","l"," ","(","4","2","2","8",")">>,
     <<"S","k","a","u","n"," ","(","5","0","2","9",")">>,
     <<"S","k","i","e","n"," ","(","4","0","0","3",")">>,
     <<"S","k","j","e","r","v","ø","y"," ","(","5","5","4","2",")">>,
     <<"S","k","j","å","k"," ","(","3","4","3","3",")">>,
     <<"S","m","ø","l","a"," ","(","1","5","7","3",")">>,
     <<"S","n","å","s","a"," ","(","5","0","4","1",")">>,
     <<"S","o","g","n","d","a","l"," ","(","4","6","4","0",")">>,
     <<"S","o","k","n","d","a","l"," ","(","1","1","1","1",")">>,
     <<"S","o","l","a"," ","(","1","1","2","4",")">>,
     <<"S","o","l","u","n","d"," ","(","4","6","3","6",")">>,
     <<"S","o","r","t","l","a","n","d"," ","(","1","8","7","0",")">>,
     <<"S","t","a","d"," ","(","4","6","4","9",")">>,
     <<"S","t","a","n","g","e"," ","(","3","4","1","3",")">>,
     <<"S","t","a","v","a","n","g","e","r"," ","(","1","1","0","3",")">>,
     <<"S","t","e","i","g","e","n"," ","(","1","8","4","8",")">>,
     <<"S","t","e","i","n","k","j","e","r"," ","(","5","0","0","6",")">>,
     <<"S","t","j","ø","r","d","a","l"," ","(","5","0","3","5",")">>,
     <<"S","t","o","r","d"," ","(","4","6","1","4",")">>,
     <<"S","t","o","r","f","j","o","r","d"," ","(","5","5","3","8",")">>,
     <<"S","t","r","a","n","d"," ","(","1","1","3","0",")">>,
     <<"S","t","r","a","n","d","a"," ","(","1","5","2","5",")">>,
     <<"S","t","r","y","n"," ","(","4","6","5","1",")">>,
     <<"S","u","l","a"," ","(","1","5","3","1",")">>,
     <<"S","u","l","d","a","l"," ","(","1","1","3","4",")">>,
     <<"S","u","n","n","d","a","l"," ","(","1","5","6","3",")">>,
     <<"S","u","n","n","f","j","o","r","d"," ","(","4","6","4","7",")">>,
     <<"S","u","r","n","a","d","a","l"," ","(","1","5","6","6",")">>,
     <<"S","v","a","l","b","a","r","d">>,
     <<"S","v","e","i","o"," ","(","4","6","1","2",")">>,
     <<"S","y","k","k","y","l","v","e","n"," ","(","1","5","2","8",")">>,
     <<"S","ø","m","n","a"," ","(","1","8","1","2",")">>,
     <<"S","ø","n","d","r","e"," ","L","a","n","d"," ","(","3","4","4","7",")">>,
     <<"S","ø","r","-","A","u","r","d","a","l"," ","(","3","4","4","9",")">>,
     <<"S","ø","r","-","O","d","a","l"," ","(","3","4","1","5",")">>,
     <<"S","ø","r","-","V","a","r","a","n","g","e","r"," ","(","5","6","0","5",")">>,
     <<"S","ø","r","f","o","l","d"," ","(","1","8","4","5",")">>,
     <<"S","ø","r","r","e","i","s","a"," ","(","5","5","2","6",")">>,
     <<"T","a","n","a"," ","(","5","6","2","8",")">>,
     <<"T","i","m","e"," ","(","1","1","2","1",")">>,
     <<"T","i","n","g","v","o","l","l"," ","(","1","5","6","0",")">>,
     <<"T","i","n","n"," ","(","4","0","2","6",")">>,
     <<"T","j","e","l","d","s","u","n","d"," ","(","5","5","1","2",")">>,
     <<"T","o","k","k","e"," ","(","4","0","3","4",")">>,
     <<"T","o","l","g","a"," ","(","3","4","2","6",")">>,
     <<"T","r","o","m","s","ø"," ","(","5","5","0","1",")">>,
     <<"T","r","o","n","d","h","e","i","m"," ","(","5","0","0","1",")">>,
     <<"T","r","æ","n","a"," ","(","1","8","3","5",")">>,
     <<"T","v","e","d","e","s","t","r","a","n","d"," ","(","4","2","1","3",")">>,
     <<"T","y","n","s","e","t"," ","(","3","4","2","7",")">>,
     <<"T","y","s","n","e","s"," ","(","4","6","1","6",")">>,
     <<"T","y","s","v","æ","r"," ","(","1","1","4","6",")">>,
     <<"T","ø","n","s","b","e","r","g"," ","(","3","9","0","5",")">>,
     <<"U","l","l","e","n","s","a","k","e","r"," ","(","3","2","0","9",")">>,
     <<"U","l","l","e","n","s","v","a","n","g"," ","(","4","6","1","8",")">>,
     <<"U","l","s","t","e","i","n"," ","(","1","5","1","6",")">>,
     <<"U","l","v","i","k"," ","(","4","6","2","0",")">>,
     <<"U","t","s","i","r","a"," ","(","1","1","5","1",")">>,
     <<"V","a","d","s","ø"," ","(","5","6","0","7",")">>,
     <<"V","a","k","s","d","a","l"," ","(","4","6","2","8",")">>,
     <<"V","a","l","l","e"," ","(","4","2","2","1",")">>,
     <<"V","a","n","y","l","v","e","n"," ","(","1","5","1","1",")">>,
     <<"V","a","r","d","ø"," ","(","5","6","3","4",")">>,
     <<"V","e","f","s","n"," ","(","1","8","2","4",")">>,
     <<"V","e","g","a"," ","(","1","8","1","5",")">>,
     <<"V","e","g","å","r","s","h","e","i"," ","(","4","2","1","2",")">>,
     <<"V","e","n","n","e","s","l","a"," ","(","4","2","2","3",")">>,
     <<"V","e","r","d","a","l"," ","(","5","0","3","8",")">>,
     <<"V","e","s","t","b","y"," ","(","3","2","1","6",")">>,
     <<"V","e","s","t","n","e","s"," ","(","1","5","3","5",")">>,
     <<"V","e","s","t","r","e"," ","S","l","i","d","r","e"," ","(","3","4","5","2",")">>,
     <<"V","e","s","t","v","å","g","ø","y"," ","(","1","8","6","0",")">>,
     <<"V","e","v","e","l","s","t","a","d"," ","(","1","8","1","6",")">>,
     <<"V","i","k"," ","(","4","6","3","9",")">>,
     <<"V","i","n","d","a","f","j","o","r","d"," ","(","1","1","6","0",")">>,
     <<"V","i","n","j","e"," ","(","4","0","3","6",")">>,
     <<"V","o","l","d","a"," ","(","1","5","7","7",")">>,
     <<"V","o","s","s"," ","(","4","6","2","1",")">>,
     <<"V","å","g","a","n"," ","(","1","8","6","5",")">>,
     <<"V","å","l","e","r"," ","(","3","4","1","9",")">>,
     <<"V","æ","r","ø","y"," ","(","1","8","5","7",")">>,
     <<"Å","f","j","o","r","d"," ","(","5","0","5","8",")">>,
     <<"Å","l","e","s","u","n","d"," ","(","1","5","0","8",")">>,
     <<"Å","m","l","i"," ","(","4","2","1","7",")">>,
     <<"Å","m","o","t"," ","(","3","4","2","2",")">>,
     <<"Å","r","d","a","l"," ","(","4","6","4","3",")">>,
     <<"Å","s"," ","(","3","2","1","8",")">>,
     <<"Å","s","e","r","a","l"," ","(","4","2","2","4",")">>,
     <<"Å","s","n","e","s"," ","(","3","4","1","8",")">>,
     <<"Ø","k","s","n","e","s"," ","(","1","8","6","8",")">>,
     <<"Ø","r","l","a","n","d"," ","(","5","0","5","7",")">>,
     <<"Ø","r","s","t","a"," ","(","1","5","2","0",")">>,
     <<"Ø","s","t","r","e"," ","T","o","t","e","n"," ","(","3","4","4","2",")">>,
     <<"Ø","v","r","e"," ","E","i","k","e","r"," ","(","3","3","1","4",")">>,
     <<"Ø","y","g","a","r","d","e","n"," ","(","4","6","2","6",")">> >>

\* xlsx_to_parquet.py:158-167, the labels "Added later".
MunicipalityAddedLater ==
  << <<"E","l","v","e","r","u","m"," ","(","3","4","2","0",")">>,
     <<"F","l","e","s","b","e","r","g"," ","(","3","3","3","4",")">>,
     <<"F","y","r","e","s","d","a","l"," ","(","4","0","3","2",")">>,
     <<"H","e","m","s","e","d","a","l"," ","(","3","3","2","6",")">>,
     <<"H","j","a","r","t","d","a","l"," ","(","4","0","2","4",")">>,
     <<"H","æ","g","e","b","o","s","t","a","d"," ","(","4","2","2","6",")">>,
     <<"K","o","n","g","s","b","e","r","g"," ","(","3","3","0","3",")">>,
     <<"L","e","s","j","a"," ","(","3","4","3","2",")">>,
     <<"L","ø","t","e","n"," ","(","3","4","1","2",")">>,
     <<"M","a","r","k","e","r"," ","(","3","1","2","2",")">>,
     <<"M","e","r","å","k","e","r"," ","(","5","0","3","4",")">>,
     <<"N","a","n","n","e","s","t","a","d"," ","(","3","2","3","8",")">>,
     <<"N","e","s","b","y","e","n"," ","(","3","3","2","2",")">>,
     <<"N","i","s","s","e","d","a","l"," ","(","4","0","3","0",")">>,
     <<"N","o","r","d","-","A","u","r","d","a","l"," ","(","3","4","5","1",")">>,
     <<"N","o","r","d","-","F","r","o","n"," ","(","3","4","3","6",")">>,
     <<"O","s"," ","(","3","4","3","0",")">>,
     <<"R","e","n","n","e","b","u"," ","(","5","0","2","2",")">>,
     <<"R","i","n","g","e","b","u"," ","(","3","4","3","9",")">>,
     <<"R","ø","r","o","s"," ","(","5","0","2","5",")">>,
     <<"S","e","l","j","o","r","d"," ","(","4","0","2","2",")">>,
     <<"S","t","o","r","-","E","l","v","d","a","l"," ","(","3","4","2","3",")">>,
     <<"T","r","y","s","i","l"," ","(","3","4","2","1",")">>,
     <<"T","y","d","a","l"," ","(","5","0","3","3",")">>,
     <<"V","a","n","g"," ","(","3","4","5","4",")">>,
     <<"V","å","g","å"," ","(","3","4","3","5",")">>,
     <<"Å","l"," ","(","3","3","2","8",")">>,
     <<"Ø","y","s","t","r","e"," ","S","l","i","d","r","e"," ","(","3","4","5","3",")">> >>
MunicipalityCategories == MunicipalityOriginal \o MunicipalityAddedLater

schema_base ==
  (MaruColOrig.gt_group :> Enum(GtGroupCategories))
  @@ (MaruColOrig.vessel_type :> Enum(VesselTypeCategories))
  @@ (MaruColOrig.phase :> Enum(PhaseCategories))
  @@ (MaruColOrig.voyage_type :> Enum(VoyageTypeCategories))
  @@ (MaruColOrig.ez_area_name :> Enum(EzAreaCategories))
  @@ (MaruColOrig.mgmt_plan_area_name :> Enum(MgmtPlanAreaCategories))
  @@ (MaruColOrig.municipality_name :> Enum(MunicipalityCategories))
  @@ (MaruColOrig.county_name :> Enum(CountyCategories))
  @@ (MaruColOrig.municipality_voyage_type :> Enum(MunicipalityVoyageTypeCategories))
  @@ (MaruColOrig.version :> Enum(VersionCategories))
  @@ (MaruColOrig.timestamp :> DatetimeMsUTC)
  @@ (MaruColOrig.year :> Int16)
  @@ (MaruColOrig.year_month :> String)
  @@ (MaruColOrig.energy_kwh :> Float64)
  @@ (MaruColOrig.fuel :> Float64)
  @@ (MaruColOrig.co2 :> Float64)
  @@ (MaruColOrig.nmvoc :> Float64)
  @@ (MaruColOrig.co :> Float64)
  @@ (MaruColOrig.ch4 :> Float64)
  @@ (MaruColOrig.n2o :> Float64)
  @@ (MaruColOrig.sox :> Float64)
  @@ (MaruColOrig.pm10 :> Float64)
  @@ (MaruColOrig.pm2_5 :> Float64)
  @@ (MaruColOrig.nox :> Float64)
  @@ (MaruColOrig.bc :> Float64)
  @@ (MaruColOrig.co2e :> Float64)
  @@ (MaruColOrig.distance_km :> Float64)

\* The dict comprehension of lines 205-208: the class attributes
\* MaruCol.kwh_battery and MaruCol.kwh_shore_power, those that are not None.
BatteryColumns ==
  LET named == {c \in {MaruCol.kwh_battery, MaruCol.kwh_shore_power} : c # None}
  IN  [c \in named |-> Float64]

VersionCategoriesLater == <<"v1.5.0", "v1.6.0", "v1.7.0">>

\* Fault: the old Våler label is replaced by the new one (the code the source
\* keeps commented out) instead of the new one being added.
MunicipalityCategoriesLater_Replaced ==
  LET cats == schema_base[MaruColOrig.municipality_name].categories
  IN  [i \in DOMAIN cats |->
         IF cats[i] = <<"V","å","l","e","r"," ","(","3","4","1","9",")">>
         THEN <<"V","å","l","e","r"," ","(","3","1","1","4",")">>
         ELSE cats[i]]

\* Våler is added with its new number; the old label stays.
MunicipalityCategoriesLater ==
  schema_base[MaruColOrig.municipality_name].categories
    \o << <<"V","å","l","e","r"," ","(","3","1","1","4",")">> >>

PhaseCategoriesLater ==
  schema_base[MaruColOrig.phase].categories \o <<"Fishing">>

VoyageTypeCategoriesLater ==
  schema_base[MaruColOrig.voyage_type].categories \o <<"NCS_Facility_Proximate">>

\* The right operand of schema_base | pl.Schema(...), lines 203-235.
schema_later_delta ==
  DictUnion(
    BatteryColumns,
    (MaruColOrig.version :> Enum(VersionCategoriesLater))
    @@ (MaruColOrig.phase :> Enum(PhaseCategoriesLater))
    @@ (MaruColOrig.municipality_name :> Enum(MunicipalityCategoriesLater))
    @@ (MaruColOrig.voyage_type :> Enum(VoyageTypeCategoriesLater)))

get_source_schema(tag) ==
  LET cols == get_maru_cols_original(tag)
  IN  IF cols.status = "raised" THEN cols
      ELSE IF tag = "20241128" THEN Return(schema_base)
      ELSE Return(DictUnion(schema_base, schema_later_delta))

(***************************************************************************)
(* scripts/xlsx_to_parquet.py: the municipality name/number split          *)
(***************************************************************************)
Digits == <<"0", "1", "2", "3", "4", "5", "6", "7", "8", "9">>
IsDigit(c) == c \in Range(Digits)
DigitValue(c) == (CHOOSE i \in DOMAIN Digits : Digits[i] = c) - 1

Max(S) == CHOOSE m \in S : \A n \in S : n <= m

\* [^(]* : a run of characters none of which is "(".
IsNameRun(t) == \A i \in DOMAIN t : t[i] # "("

\* (?: \((?P<municipality_number>\d{4})\)) : a space, "(", four digits, ")".
IsNumberGroup(t) ==
  /\ Len(t) = 7
  /\ t[1] = " "
  /\ t[2] = "("
  /\ \A i \in 3..6 : IsDigit(t[i])
  /\ t[7] = ")"

\* The lengths the name group can take in a match of the whole string:
\* ^ name-run, then the number group or nothing, then $.
NameLengths(s) ==
  {k \in 0..Len(s) :
     /\ IsNameRun(SubSeq(s, 1, k))
     /\ \/ k = Len(s)
        \/ IsNumberGroup(SubSeq(s, k + 1, Len(s)))}

\* str.extract_groups(municipality_regex): the star is greedy, so the name is the
\* longest run that lets the rest match; a string that does not match gives nulls.
extract_groups(s) ==
  IF s = Null \/ NameLengths(s) = {}
  THEN [municipality_name |-> Null, municipality_number |-> Null]
  ELSE LET k == Max(NameLengths(s))
       IN  [municipality_name |-> SubSeq(s, 1, k),
            municipality_number |->
              IF k = Len(s) THEN Null ELSE SubSeq(s, k + 3, k + 6)]

\* 'Herøy (' + number + ')': a null operand makes the sum null.
HeroyWithNumber(number) ==
  IF number = Null THEN Null
  ELSE <<"H","e","r","ø","y"," ","(">> \o number \o <<")">>

\* pl.when(name == 'Herøy').then(...).otherwise(name): a null name compares
\* as null and takes the otherwise branch.
DisambiguatedName(name, number) ==
  IF name # Null /\ name = <<"H","e","r","ø","y">>
  THEN HeroyWithNumber(number)
  ELSE name

\* Fault: no disambiguation.
disambiguate_none(row) == row

disambiguate(row) ==
  [row EXCEPT !.municipality_name =
     DisambiguatedName(row.municipality_name, row.municipality_number)]

fill_null(v, with) == IF v = Null THEN with ELSE v

\* Fault: the values are not made unique.
unique_not(s) == s

\* Series.unique(maintain_order=True): each value once, at its first occurrence.
\* Computed by halves: the first half's values, then those of the second half
\* not among them.
RECURSIVE unique_maintain_order(_)
unique_maintain_order(s) ==
  IF Len(s) <= 1 THEN s
  ELSE LET h == Len(s) \div 2
           a == unique_maintain_order(SubSeq(s, 1, h))
           b == unique_maintain_order(SubSeq(s, h + 1, Len(s)))
           seen == Range(a)
       IN  a \o SelectSeq(b, LAMBDA x : x \notin seen)

\* One row of municipality_df, from one category of the schema's enum.
MunicipalityRow(label) ==
  LET r == disambiguate(extract_groups(label))
  IN  [r EXCEPT !.municipality_number = fill_null(r.municipality_number, <<>>)]

process_municipality_data(schema) ==
  LET municipality_enum_type == schema["municipality_name"]
  IN  IF municipality_enum_type.kind # "Enum"
      THEN Raise("TypeError", <<"Schema's 'municipality_name' is not an Enum type.">>)
      ELSE
        LET cats == municipality_enum_type.categories
            municipality_df == [i \in DOMAIN cats |-> MunicipalityRow(cats[i])]
            names == [i \in DOMAIN cats |-> municipality_df[i].municipality_name]
            numbers == [i \in DOMAIN cats |-> municipality_df[i].municipality_number]
        IN  Return([municipality_df |-> municipality_df,
                    municipality_schema |->
                      [municipality_name |-> Enum(unique_maintain_order(names)),
                       municipality_number |-> Enum(unique_maintain_order(numbers))]])

(***************************************************************************)
(* scripts/xlsx_to_parquet.py: process_excel_file                          *)
(***************************************************************************)
\* A cast of a value to an enum: null stays null, a category stays itself,
\* anything else fails the cast.
CastFails(v, enum) == v # Null /\ v \notin Range(enum.categories)

\* str.slice(-2): the last two characters (all of a shorter string).
SliceLast2(s) == SubSeq(s, IF Len(s) > 2 THEN Len(s) - 1 ELSE 1, Len(s))

\* A strict cast of a string to an integer: decimal digits only.
IsInteger(s) == Len(s) > 0 /\ \A i \in DOMAIN s : IsDigit(s[i])
RECURSIVE IntegerValue(_)
IntegerValue(s) ==
  IF Len(s) = 0 THEN 0
  ELSE 10 * IntegerValue(SubSeq(s, 1, Len(s) - 1)) + DigitValue(s[Len(s)])

\* Fault: the row-level extraction leaves out the disambiguation.
ExcelRow_NoDisambiguation(raw) ==
  LET r == extract_groups(raw.municipality_name)
  IN  [month |-> IntegerValue(SliceLast2(raw.year_month)),
       municipality_name |-> r.municipality_name,
       municipality_number |-> r.municipality_number]

\* One row of the frame process_excel_file returns, from one raw row.
ExcelRow(raw) ==
  LET r == disambiguate(extract_groups(raw.municipality_name))
  IN  [month |-> IntegerValue(SliceLast2(raw.year_month)),
       municipality_name |-> r.municipality_name,
       municipality_number |-> r.municipality_number]

process_excel_file(file, base_schema, municipality_info_schema) ==
  LET rows == [i \in DOMAIN file |-> ExcelRow(file[i])]
  IN  IF \E i \in DOMAIN file :
           CastFails(file[i].municipality_name, base_schema["municipality_name"])
      THEN Raise("InvalidOperationError", <<"read_excel: schema_overrides">>)
      ELSE IF \E i \in DOMAIN file : ~IsInteger(SliceLast2(file[i].year_month))
      THEN Raise("InvalidOperationError", <<"cast: month">>)
      ELSE IF \E i \in DOMAIN rows :
           \/ CastFails(rows[i].municipality_name,
                        municipality_info_schema.municipality_name)
           \/ CastFails(rows[i].municipality_number,
                        municipality_info_schema.municipality_number)
      THEN Raise("InvalidOperationError", <<"cast: municipality_info_schema">>)
      ELSE Return(rows)

(***************************************************************************)
(* The schema calls: a caller with one version tag asks for the column     *)
(* labels and the source schema, splits the municipality domain and reads  *)
(* one report file.                                                        *)
(***************************************************************************)
\* The tags a caller may pass: the two versions and two strings that are none.
VersionTags == MaruVersion \cup {"20230101", "v1.5.0"}

\* Labels a report file may hold in its municipality column; the last two are in
\* no version's domain.
SampleLabels ==
  { <<"O","s","l","o"," ","(","0","3","0","1",")">>,
    <<"H","e","r","ø","y"," ","(","1","5","1","5",")">>,
    <<"H","e","r","ø","y"," ","(","1","8","1","8",")">>,
    <<"S","v","a","l","b","a","r","d">>,
    <<"V","å","l","e","r"," ","(","3","4","1","9",")">>,
    <<"V","å","l","e","r"," ","(","3","1","1","4",")">>,
    <<"E","v","j","e"," ","o","g"," ","H","o","r","n","n","e","s"," ","(","4","2","1","9",")">>,
    <<"A","t","l","a","n","t","i","s"," ","(","9","9","9","9",")">>,
    <<"O","s","l","o">> }

YearMonths ==
  { <<"2","0","2","3","0","1">>, <<"2","0","2","4","1","2">> }

RawRows == [municipality_name : SampleLabels, year_month : YearMonths]

MaxFileRows == 2
Files == UNION {[1..n -> RawRows] : n \in 0..MaxFileRows}

SchemaInit ==
  /\ version \in VersionTags
  /\ colsRes = NotCalled
  /\ extColsRes = NotCalled
  /\ schemaRes = NotCalled
  /\ munRes = NotCalled
  /\ rawFile = <<>>
  /\ fileRes = NotCalled

CallGetMaruColsOriginal ==
  /\ colsRes.status = "not_called"
  /\ colsRes' = get_maru_cols_original(version)
  /\ UNCHANGED <<version, extColsRes, schemaRes, munRes, rawFile, fileRes>>
  /\ UNCHANGED <<aggVars, mainVars, ctorVars, convVars>>

CallGetMaruCols ==
  /\ extColsRes.status = "not_called"
  /\ extColsRes' = get_maru_cols(version)
  /\ UNCHANGED <<version, colsRes, schemaRes, munRes, rawFile, fileRes>>
  /\ UNCHANGED <<aggVars, mainVars, ctorVars, convVars>>

CallGetSourceSchema ==
  /\ schemaRes.status = "not_called"
  /\ schemaRes' = get_source_schema(version)
  /\ UNCHANGED <<version, colsRes, extColsRes, munRes, rawFile, fileRes>>
  /\ UNCHANGED <<aggVars, mainVars, ctorVars, convVars>>

CallProcessMunicipalityData ==
  /\ schemaRes.status = "returned"
  /\ munRes.status = "not_called"
  /\ munRes' = process_municipality_data(schemaRes.value)
  /\ UNCHANGED <<version, colsRes, extColsRes, schemaRes, rawFile, fileRes>>
  /\ UNCHANGED <<aggVars, mainVars, ctorVars, convVars>>

CallProcessExcelFile ==
  /\ munRes.status = "returned"
  /\ fileRes.status = "not_called"
  /\ \E f \in Files :
       /\ rawFile' = f
       /\ fileRes' = process_excel_file(f, schemaRes.value,
                                        munRes.value.municipality_schema)
  /\ UNCHANGED <<version, colsRes, extColsRes, schemaRes, munRes>>
  /\ UNCHANGED <<aggVars, mainVars, ctorVars, convVars>>

SchemaNext ==
  \/ CallGetMaruColsOriginal
  \/ CallGetMaruCols
  \/ CallGetSourceSchema
  \/ CallProcessMunicipalityData
  \/ CallProcessExcelFile


(***************************************************************************)
(* processed_vars/types.py and processed_vars/specs.py                     *)
(***************************************************************************)
\* A frame is a sequence of column names and a sequence of rows; a row is a
\* function from the column names to values.
Frame(columns, rows) == [columns |-> columns, rows |-> rows]

\* The dtypes of the processed frame main of xlsx_to_parquet writes: the source
\* schema with the municipality columns cast to the derived enums.
TypedSchema20241128 ==
  DictUnion(get_source_schema(V20241128).value,
            process_municipality_data(get_source_schema(V20241128).value)
              .value.municipality_schema)
TypedSchema20250304 ==
  DictUnion(get_source_schema(V20250304).value,
            process_municipality_data(get_source_schema(V20250304).value)
              .value.municipality_schema)
TypedSchema(tag) ==
  IF tag = V20241128 THEN TypedSchema20241128 ELSE TypedSchema20250304

\* The members of the GHG StrEnum: enum.auto() gives the lower-cased names.
GHG == {"co2", "ch4", "n2o"}

max_sheet_name_len == 31

\* The class attributes, in the order of the tuple.
group_by_common ==
  <<MaruCol.municipality_name, MaruCol.vessel_type,
    MaruCol.municipality_voyage_type, MaruCol.year>>

\* Fault: a selector that is no member of GHG selects the CO2 column.
_select_ghg_value_col_defaulting(ghg, maru_cols) ==
  Return(IF ghg = "ch4" THEN maru_cols.ch4
         ELSE IF ghg = "n2o" THEN maru_cols.n2o
         ELSE maru_cols.co2)

_select_ghg_value_col(ghg, maru_cols) ==
  IF ghg \notin GHG
  THEN Raise("ValueError", <<"'", ghg, "' is not a valid GHG">>)
  ELSE LET data_value_col ==
             IF ghg = "co2" THEN maru_cols.co2
             ELSE IF ghg = "ch4" THEN maru_cols.ch4
             ELSE IF ghg = "n2o" THEN maru_cols.n2o
             ELSE ""
       IN  IF data_value_col = ""
           THEN Raise("ValueError", <<"Invalid GHG value passed.">>)
           ELSE Return(data_value_col)

\* pl.sum(col) over the rows of df at the indices idx.
RECURSIVE SumOver(_, _, _)
SumOver(df, idx, col) ==
  IF idx = {} THEN 0
  ELSE LET i == CHOOSE i \in idx : TRUE
       IN  df[i][col] + SumOver(df, idx \ {i}, col)

\* The key of a row: its values in the key columns, in their order.
KeyOf(row, keys) == [i \in DOMAIN keys |-> row[keys[i]]]

\* df.group_by(*keys).agg(pl.sum(src).alias(out)): one row for each key that
\* occurs, in no particular order (a set).
GroupRows(df, keys, src, out) ==
  LET occurring == {KeyOf(df[i], keys) : i \in DOMAIN df}
      members(k) == {i \in DOMAIN df : KeyOf(df[i], keys) = k}
  IN  { [c \in Range(keys) \cup {out} |->
           IF c = out THEN SumOver(df, members(k), src)
           ELSE k[CHOOSE i \in DOMAIN keys : keys[i] = c]] : k \in occurring }

\* The position of a value in the ascending order of its column: an integer is
\* its own, an enum value has the index of its category.
SortRank(schema, col, v) ==
  IF schema[col].kind = "Enum"
  THEN CHOOSE i \in DOMAIN schema[col].categories : schema[col].categories[i] = v
  ELSE v

\* a comes before b in the ascending lexicographic order over the columns by.
RowBefore(schema, by, a, b) ==
  \E i \in DOMAIN by :
    /\ \A j \in 1..(i - 1) : a[by[j]] = b[by[j]]
    /\ SortRank(schema, by[i], a[by[i]]) < SortRank(schema, by[i], b[by[i]])

\* Fault: the sort is descending.
SortExcluding_Descending(schema, columns, rows, out) ==
  LET by == SelectSeq(columns, LAMBDA c : c # out)
  IN  [k \in 1..Cardinality(rows) |->
         CHOOSE r \in rows :
           Cardinality({o \in rows : RowBefore(schema, by, r, o)}) = k - 1]

\* .sort(cs.exclude(cs.by_name(out))): ascending by every column but out, in the
\* order of the columns.  The rows of a group_by differ in these columns, so the
\* order is total.
SortExcluding(schema, columns, rows, out) ==
  LET by == SelectSeq(columns, LAMBDA c : c # out)
  IN  [k \in 1..Cardinality(rows) |->
         CHOOSE r \in rows :
           Cardinality({o \in rows : RowBefore(schema, by, o, r)}) = k - 1]

\* The chain every processing function ends in:
\* df.group_by(*keys).agg(pl.sum(src).alias(out)).sort(cs.exclude(cs.by_name(out))).
\* An alias that is also a key column is a duplicate column, which polars refuses.
GroupSumSort(schema, df, keys, src, out) ==
  IF out \in Range(keys)
  THEN Raise("DuplicateError", <<"column with name '", out, "' has more than one occurrence">>)
  ELSE Return(Frame(Append(keys, out),
                    SortExcluding(schema, Append(keys, out),
                                  GroupRows(df, keys, src, out), out)))

\* if output_value_col is None: output_value_col = <the source column>
OutputCol(output_value_col, data_value_col) ==
  IF output_value_col = None THEN data_value_col ELSE output_value_col

GhgSumKeys == group_by_common
_process_ghg_sum_tonn(schema, df, maru_cols, ghg, output_value_col) ==
  LET sel == _select_ghg_value_col(ghg, maru_cols)
  IN  IF sel.status = "raised" THEN sel
      ELSE GroupSumSort(schema, df, GhgSumKeys, sel.value,
                        OutputCol(output_value_col, sel.value))

GhgPerGtKeys(maru_cols) == Append(group_by_common, maru_cols.gt_group)
_process_ghg_per_gt_tonn(schema, df, maru_cols, ghg, output_value_col) ==
  LET sel == _select_ghg_value_col(ghg, maru_cols)
  IN  IF sel.status = "raised" THEN sel
      ELSE GroupSumSort(schema, df, GhgPerGtKeys(maru_cols), sel.value,
                        OutputCol(output_value_col, sel.value))

GhgPerPhaseKeys(maru_cols) == Append(group_by_common, maru_cols.phase)
_process_ghg_per_phase_tonn(schema, df, maru_cols, ghg, output_value_col) ==
  LET sel == _select_ghg_value_col(ghg, maru_cols)
  IN  IF sel.status = "raised" THEN sel
      ELSE GroupSumSort(schema, df, GhgPerPhaseKeys(maru_cols), sel.value,
                        OutputCol(output_value_col, sel.value))

EnergySumKeys == group_by_common
_process_energy_sum_kwh(schema, df, maru_cols, output_value_col) ==
  GroupSumSort(schema, df, EnergySumKeys, maru_cols.energy_kwh,
               OutputCol(output_value_col, maru_cols.energy_kwh))

\* Fault: the phase is left out of the keys.
EnergyPerPhaseKeys_NoPhase(maru_cols) == group_by_common

EnergyPerPhaseKeys(maru_cols) == Append(group_by_common, maru_cols.phase)
_process_energy_per_phase_kwh(schema, df, maru_cols, output_value_col) ==
  GroupSumSort(schema, df, EnergyPerPhaseKeys(maru_cols), maru_cols.energy_kwh,
               OutputCol(output_value_col, maru_cols.energy_kwh))

EnergyPerGtKeys(maru_cols) == Append(group_by_common, maru_cols.gt_group)
_process_energy_per_gt_kwh(schema, df, maru_cols, output_value_col) ==
  GroupSumSort(schema, df, EnergyPerGtKeys(maru_cols), maru_cols.energy_kwh,
               OutputCol(output_value_col, maru_cols.energy_kwh))

\* Fault: the exclude is left out.
EnergyPerVoyageTypeKeys_NoExclude(maru_cols) ==
  Append(group_by_common, maru_cols.voyage_type)

\* pl.col(*group_by_common, maru_cols.voyage_type)
\*   .exclude(maru_cols.municipality_voyage_type)
EnergyPerVoyageTypeKeys(maru_cols) ==
  SelectSeq(Append(group_by_common, maru_cols.voyage_type),
            LAMBDA c : c # maru_cols.municipality_voyage_type)
_process_energy_per_voyage_type_kwh(schema, df, maru_cols, output_value_col) ==
  GroupSumSort(schema, df, EnergyPerVoyageTypeKeys(maru_cols),
               maru_cols.energy_kwh,
               OutputCol(output_value_col, maru_cols.energy_kwh))

FuelSumKeys == group_by_common
_process_fuel_sum_tonn(schema, df, maru_cols, output_value_col) ==
  GroupSumSort(schema, df, FuelSumKeys, maru_cols.fuel,
               OutputCol(output_value_col, maru_cols.fuel))

FuelPerGtKeys(maru_cols) == Append(group_by_common, maru_cols.gt_group)
_process_fuel_per_gt_tonn(schema, df, maru_cols, output_value_col) ==
  GroupSumSort(schema, df, FuelPerGtKeys(maru_cols), maru_cols.fuel,
               OutputCol(output_value_col, maru_cols.fuel))

\* A processing function of a spec: the function's name and, for a
\* functools.partial, the bound ghg.
Func(name) == [func |-> name, ghg |-> None]
Partial(name, ghg) == [func |-> name, ghg |-> ghg]

\* processing_func(df=..., maru_cols=..., output_var_name=..., output_value_col=...)
CallProcessingFunc(f, schema, df, maru_cols, output_value_col) ==
  CASE f.func = "_process_energy_sum_kwh" ->
         _process_energy_sum_kwh(schema, df, maru_cols, output_value_col)
    [] f.func = "_process_energy_per_phase_kwh" ->
         _process_energy_per_phase_kwh(schema, df, maru_cols, output_value_col)
    [] f.func = "_process_energy_per_gt_kwh" ->
         _process_energy_per_gt_kwh(schema, df, maru_cols, output_value_col)
    [] f.func = "_process_energy_per_voyage_type_kwh" ->
         _process_energy_per_voyage_type_kwh(schema, df, maru_cols, output_value_col)
    [] f.func = "_process_fuel_sum_tonn" ->
         _process_fuel_sum_tonn(schema, df, maru_cols, output_value_col)
    [] f.func = "_process_fuel_per_gt_tonn" ->
         _process_fuel_per_gt_tonn(schema, df, maru_cols, output_value_col)
    [] f.func = "_process_ghg_sum_tonn" ->
         _process_ghg_sum_tonn(schema, df, maru_cols, f.ghg, output_value_col)
    [] f.func = "_process_ghg_per_gt_tonn" ->
         _process_ghg_per_gt_tonn(schema, df, maru_cols, f.ghg, output_value_col)
    [] f.func = "_process_ghg_per_phase_tonn" ->
         _process_ghg_per_phase_tonn(schema, df, maru_cols, f.ghg, output_value_col)

\* StavangerOutputVarNames, and the one sheet name StavangerOutputSheetNames
\* overrides.
VAR_NAMES ==
  [ ENERGY_SUM_KWH |-> "maru_energibehov_sum_kwh",
    ENERGY_PER_PHASE_KWH |-> "maru_energibehov_per_fase_kwh",
    ENERGY_PER_GT_KWH |-> "maru_energibehov_per_gt_kwh",
    ENERGY_PER_VOYAGE_TYPE_KWH |-> "maru_energibehov_per_voyage_type_kwh",
    FUEL_SUM_TONN |-> "maru_fuel_sum_tonn",
    FUEL_PER_GT_TONN |-> "maru_fuel_per_gt_tonn",
    CO2_SUM_TONN |-> "maru_co2_sum_tonn",
    CO2_PER_PHASE_TONN |-> "maru_co2_per_fase_tonn",
    CO2_PER_GT_TONN |-> "maru_co2_per_gt_tonn",
    CH4_SUM_TONN |-> "maru_ch4_sum_tonn",
    CH4_PER_PHASE_TONN |-> "maru_ch4_per_fase_tonn",
    CH4_PER_GT_TONN |-> "maru_ch4_per_gt_tonn",
    N2O_SUM_TONN |-> "maru_n2o_sum_tonn",
    N2O_PER_PHASE_TONN |-> "maru_n2o_per_fase_tonn",
    N2O_PER_GT_TONN |-> "maru_n2o_per_gt_tonn" ]

SHEET_NAMES ==
  [VAR_NAMES EXCEPT !.ENERGY_PER_VOYAGE_TYPE_KWH = "maru_energ_per_voyage_type_kwh"]

\* Fault: no check of the sheet name.
OutputVarSpec_Unchecked(name, sheet_name, processing_func) ==
  Return([name |-> name, sheet_name |-> sheet_name,
          output_value_col |-> None,
          processing_func |-> processing_func])

\* OutputVarSpec(name=..., sheet_name=..., processing_func=...): __post_init__
\* refuses a sheet name longer than max_sheet_name_len.
OutputVarSpec(name, sheet_name, processing_func) ==
  IF Len(sheet_name) > max_sheet_name_len
  THEN Raise("ValueError", <<"Sheet name \"", sheet_name, "\" is too long. ">>)
  ELSE Return([name |-> name, sheet_name |-> sheet_name,
               output_value_col |-> None,
               processing_func |-> processing_func])

\* The items of the dict literal, in insertion order: each a key and the outcome
\* of constructing its spec.
SpecTableItems ==
  << <<VAR_NAMES.ENERGY_SUM_KWH,
       OutputVarSpec(VAR_NAMES.ENERGY_SUM_KWH, SHEET_NAMES.ENERGY_SUM_KWH,
                     Func("_process_energy_sum_kwh"))>>,
     <<VAR_NAMES.ENERGY_PER_PHASE_KWH,
       OutputVarSpec(VAR_NAMES.ENERGY_PER_PHASE_KWH, SHEET_NAMES.ENERGY_PER_PHASE_KWH,
                     Func("_process_energy_per_phase_kwh"))>>,
     <<VAR_NAMES.ENERGY_PER_GT_KWH,
       OutputVarSpec(VAR_NAMES.ENERGY_PER_GT_KWH, SHEET_NAMES.ENERGY_PER_GT_KWH,
                     Func("_process_energy_per_gt_kwh"))>>,
     <<VAR_NAMES.ENERGY_PER_VOYAGE_TYPE_KWH,
       OutputVarSpec(VAR_NAMES.ENERGY_PER_VOYAGE_TYPE_KWH,
                     SHEET_NAMES.ENERGY_PER_VOYAGE_TYPE_KWH,
                     Func("_process_energy_per_voyage_type_kwh"))>>,
     <<VAR_NAMES.FUEL_SUM_TONN,
       OutputVarSpec(VAR_NAMES.FUEL_SUM_TONN, SHEET_NAMES.FUEL_SUM_TONN,
                     Func("_process_fuel_sum_tonn"))>>,
     <<VAR_NAMES.FUEL_PER_GT_TONN,
       OutputVarSpec(VAR_NAMES.FUEL_PER_GT_TONN, SHEET_NAMES.FUEL_PER_GT_TONN,
                     Func("_process_fuel_per_gt_tonn"))>>,
     <<VAR_NAMES.CO2_SUM_TONN,
       OutputVarSpec(VAR_NAMES.CO2_SUM_TONN, SHEET_NAMES.CO2_SUM_TONN,
                     Partial("_process_ghg_sum_tonn", "co2"))>> >>

\* The spec table, an insertion-ordered dict of the specs constructed.
stavanger_output_specs_202508 ==
  [i \in DOMAIN SpecTableItems |->
     <<SpecTableItems[i][1], SpecTableItems[i][2].value>>]

(***************************************************************************)
(* The transforms as calls: a typed input frame of a few rows, and one     *)
(* call of one processing function on it.                                  *)
(***************************************************************************)
Oslo == <<"O","s","l","o">>
Bergen == <<"B","e","r","g","e","n">>

KeyColumns ==
  {"municipality_name", "vessel_type", "municipality_voyage_type", "year",
   "gt_group", "phase", "voyage_type"}

BaseKey ==
  [ municipality_name |-> Oslo,
    vessel_type |-> "Cruise",
    municipality_voyage_type |-> "Berthed",
    year |-> 2023,
    gt_group |-> "gt1, 0-399",
    phase |-> "Anchor",
    voyage_type |-> "Domestic" ]

AltKey ==
  [ municipality_name |-> Bergen,
    vessel_type |-> "Andre aktiviteter",
    municipality_voyage_type |-> "Transit",
    year |-> 2022,
    gt_group |-> "Unknown",
    phase |-> "Node (berth)",
    voyage_type |-> "Berthed" ]

Measures100 ==
  [sum_kwh |-> 100, sum_fuel |-> 7, sum_co2 |-> 20, sum_ch4 |-> 2, sum_n2o |-> 1]
Measures50 ==
  [sum_kwh |-> 50, sum_fuel |-> 3, sum_co2 |-> 10, sum_ch4 |-> 4, sum_n2o |-> 0]

\* The rows an input frame is drawn from: the base row with either measures, and
\* the rows that differ from it in one key column.
SampleRows ==
  {BaseKey @@ Measures100, BaseKey @@ Measures50}
    \cup {[BaseKey EXCEPT ![c] = AltKey[c]] @@ Measures50 : c \in KeyColumns}

MaxRows == 2
InputFrames == UNION {[1..n -> SampleRows] : n \in 0..MaxRows}

\* The functions of specs.py; the ghg functions with a selector, one of which is
\* no member of GHG.
GhgSelectors == GHG \cup {"nox"}
ProcessingFuncs ==
  {Func(n) : n \in {"_process_energy_sum_kwh", "_process_energy_per_phase_kwh",
                    "_process_energy_per_gt_kwh",
                    "_process_energy_per_voyage_type_kwh",
                    "_process_fuel_sum_tonn", "_process_fuel_per_gt_tonn"}}
    \cup {Partial(n, g) : n \in {"_process_ghg_sum_tonn", "_process_ghg_per_gt_tonn",
                                 "_process_ghg_per_phase_tonn"},
                          g \in GhgSelectors}

\* The values a caller passes as output_value_col; "phase" is a key column of
\* the per-phase transforms.
OutputValueCols == {None, "verdi", "phase"}

AggInit ==
  /\ version \in MaruVersion
  /\ inputFrame \in InputFrames
  /\ aggCall = NotCalled
  /\ aggRes = NotCalled

Transform ==
  /\ aggRes.status = "not_called"
  /\ \E f \in ProcessingFuncs, col \in OutputValueCols :
       /\ aggCall' = [status |-> "called", processing_func |-> f,
                      output_value_col |-> col]
       /\ aggRes' = CallProcessingFunc(f, TypedSchema(version), inputFrame,
                                       get_maru_cols(version).value, col)
  /\ UNCHANGED <<version, inputFrame>>
  /\ UNCHANGED <<schemaVars, mainVars, ctorVars, convVars>>

AggNext == Transform


(***************************************************************************)
(* The construction of one output variable spec.                          *)
(***************************************************************************)
\* The sheet names a spec may be constructed with: the empty name, the names of
\* the variables (one of which has 36 characters), and shortenings of that one
\* to 30, 31 and 32 characters.
SheetNames ==
  {VAR_NAMES[k] : k \in DOMAIN VAR_NAMES}
    \cup {SHEET_NAMES[k] : k \in DOMAIN SHEET_NAMES}
    \cup {"", "maru_energi_per_voyage_type_kwh",
          "maru_energib_per_voyage_type_kwh"}

CtorArgs ==
  [ name : {VAR_NAMES[k] : k \in DOMAIN VAR_NAMES},
    sheet_name : SheetNames,
    processing_func : ProcessingFuncs ]

CtorInit ==
  /\ version = V20241128
  /\ ctorArgs \in CtorArgs
  /\ newSpec = NotCalled

ConstructOutputVarSpec ==
  /\ newSpec.status = "not_called"
  /\ newSpec' = OutputVarSpec(ctorArgs.name, ctorArgs.sheet_name,
                              ctorArgs.processing_func)
  /\ UNCHANGED <<version, ctorArgs>>
  /\ UNCHANGED <<schemaVars, aggVars, mainVars, convVars>>

CtorNext == ConstructOutputVarSpec
(***************************************************************************)
(* scripts/maru_parquet_to_lokfram_variables.py                            *)
(***************************************************************************)
\* Fault: the table is gone through from its last item to its first.
output_var_specs_reversed ==
  [i \in DOMAIN stavanger_output_specs_202508 |->
     stavanger_output_specs_202508[Len(stavanger_output_specs_202508) + 1 - i]]

output_var_specs == stavanger_output_specs_202508

\* Fault: b only when a is None.
PyOr_IfNotNone(a, b) == IF a = None THEN b ELSE a

\* a or b, for values that are None or strings: a unless it is None or empty.
PyOr(a, b) == IF a = None \/ a = "" THEN b ELSE a

\* pl.scan_parquet(in_file).filter(pl.col(municipality_name) == name).collect()
FilterMunicipality(frame, maru_cols, name) ==
  SelectSeq(frame, LAMBDA r : r[maru_cols.municipality_name] = name)

get_input_data_obj(in_file, maru_cols, name) ==
  IF ~in_file.exists
  THEN Raise("FileNotFoundError", <<"Input file does not exist.">>)
  ELSE LET frame == FilterMunicipality(in_file.rows, maru_cols, name)
       IN  IF Len(frame) = 0
           THEN Raise("ValueError", <<"No data found for municipality.">>)
           ELSE Return(frame)

\* A workbook: whether it is open, its worksheets in the order of their
\* creation, how often close() was called on it, and the worksheets that
\* close() stored in the output file.
NoWorkbook == [open |-> FALSE, sheets |-> <<>>, closes |-> 0, stored |-> <<>>]
NewWorkbook == [open |-> TRUE, sheets |-> <<>>, closes |-> 0, stored |-> <<>>]

\* Fault: no check that the output file exists.
get_output_obj_overwriting(out_file) == Return(NewWorkbook)

get_output_obj(out_file) ==
  IF out_file.exists
  THEN Raise("FileExistsError", <<"Output file already exists.">>)
  ELSE Return(NewWorkbook)

\* The first half of process_and_write_output: the frame the spec's processing
\* function makes of the input.
ProcessOutput(input, var_spec, schema, maru_cols, output_value_col) ==
  CallProcessingFunc(var_spec.processing_func, schema, input, maru_cols,
                     PyOr(output_value_col, var_spec.output_value_col))

\* The error message main writes to stderr.
AbortMessage(var) ==
  <<"An error occurred while processing the variable \"", var, "\". ",
    "Further processing was aborted.">>

\* What main is run with: the arguments and the files they name.
Parquets ==
  { <<>>,
    << [BaseKey EXCEPT !.municipality_name = Bergen] @@ Measures50 >>,
    << BaseKey @@ Measures100,
       [BaseKey EXCEPT !.municipality_name = Bergen] @@ Measures50,
       BaseKey @@ Measures50,
       [BaseKey EXCEPT !.voyage_type = "Berthed"] @@ Measures50 >> }

\* --output-value-col: not given, empty, a new name, or the name of a key column
\* of the per-voyage-type transform.
OutputValueColArgs == {None, "", "verdi", "voyage_type"}

MainArgs ==
  [ in_file : [exists : BOOLEAN, rows : Parquets],
    out_file : [exists : BOOLEAN],
    municipality_name : {Oslo},
    output_value_col : OutputValueColArgs ]

MainInit ==
  /\ version \in MaruVersion
  /\ args \in MainArgs
  /\ pc = "get_input"
  /\ input_obj = <<>>
  /\ output_obj = NoWorkbook
  /\ loop_index = 1
  /\ curr_var = "<no variables processed yet>"
  /\ started = <<>>
  /\ stderr = <<>>
  /\ exception = NotCalled

\* Lines 148-155: the labels, then the input frame or its exception.
GetInputDataObj ==
  /\ pc = "get_input"
  /\ LET r == get_input_data_obj(args.in_file, get_maru_cols(version).value,
                                 args.municipality_name)
     IN  IF r.status = "raised"
         THEN /\ exception' = r
              /\ pc' = "raised"
              /\ UNCHANGED input_obj
         ELSE /\ input_obj' = r.value
              /\ pc' = "get_output"
              /\ UNCHANGED exception
  /\ UNCHANGED <<version, args, output_obj, loop_index, curr_var, started, stderr>>
  /\ UNCHANGED <<schemaVars, aggVars, ctorVars, convVars>>

\* Lines 156-157: the workbook, or FileExistsError.
GetOutputObj ==
  /\ pc = "get_output"
  /\ LET r == get_output_obj(args.out_file)
     IN  IF r.status = "raised"
         THEN /\ exception' = r
              /\ pc' = "raised"
              /\ UNCHANGED output_obj
         ELSE /\ output_obj' = r.value
              /\ pc' = "loop"
              /\ UNCHANGED exception
  /\ UNCHANGED <<version, args, input_obj, loop_index, curr_var, started, stderr>>
  /\ UNCHANGED <<schemaVars, aggVars, ctorVars, convVars>>

\* Fault: curr_var is set after the variable was processed and written.
ProcessVariable_LateCurrVar ==
  /\ pc = "loop"
  /\ loop_index <= Len(output_var_specs)
  /\ LET _var_name == output_var_specs[loop_index][1]
         _var_spec == output_var_specs[loop_index][2]
         r == ProcessOutput(input_obj, _var_spec, TypedSchema(version),
                            get_maru_cols(version).value, args.output_value_col)
     IN  /\ started' = Append(started, _var_name)
         /\ \/ /\ r.status = "raised"
               /\ exception' = r
               /\ pc' = "except"
               /\ UNCHANGED <<output_obj, loop_index, curr_var>>
            \/ /\ r.status = "returned"
               /\ exception' = Raise("XlsxWriterException", <<"write_excel">>)
               /\ pc' = "except"
               /\ UNCHANGED <<output_obj, loop_index, curr_var>>
            \/ /\ r.status = "returned"
               /\ output_obj' =
                    [output_obj EXCEPT !.sheets =
                       Append(@, [name |-> _var_spec.sheet_name, frame |-> r.value])]
               /\ loop_index' = loop_index + 1
               /\ curr_var' = _var_name
               /\ UNCHANGED <<exception, pc>>
  /\ UNCHANGED <<version, args, input_obj, stderr>>
  /\ UNCHANGED <<schemaVars, aggVars, ctorVars, convVars>>

\* Lines 162-171, one turn of the loop: the next item of the table becomes
\* curr_var and is processed and written.  The processing function may raise,
\* and so may write_excel.
ProcessVariable ==
  /\ pc = "loop"
  /\ loop_index <= Len(output_var_specs)
  /\ LET _var_name == output_var_specs[loop_index][1]
         _var_spec == output_var_specs[loop_index][2]
         r == ProcessOutput(input_obj, _var_spec, TypedSchema(version),
                            get_maru_cols(version).value, args.output_value_col)
     IN  /\ curr_var' = _var_name
         /\ started' = Append(started, _var_name)
         /\ \/ /\ r.status = "raised"
               /\ exception' = r
               /\ pc' = "except"
               /\ UNCHANGED <<output_obj, loop_index>>
            \/ /\ r.status = "returned"
               /\ exception' = Raise("XlsxWriterException", <<"write_excel">>)
               /\ pc' = "except"
               /\ UNCHANGED <<output_obj, loop_index>>
            \/ /\ r.status = "returned"
               /\ output_obj' =
                    [output_obj EXCEPT !.sheets =
                       Append(@, [name |-> _var_spec.sheet_name, frame |-> r.value])]
               /\ loop_index' = loop_index + 1
               /\ UNCHANGED <<exception, pc>>
  /\ UNCHANGED <<version, args, input_obj, stderr>>
  /\ UNCHANGED <<schemaVars, aggVars, ctorVars, convVars>>

\* The loop ends after the last item: on to the finally clause.
LoopDone ==
  /\ pc = "loop"
  /\ loop_index > Len(output_var_specs)
  /\ pc' = "finally"
  /\ UNCHANGED <<version, args, input_obj, output_obj, loop_index, curr_var,
                 started, stderr, exception>>
  /\ UNCHANGED <<schemaVars, aggVars, ctorVars, convVars>>

\* Lines 172-177: the except clause writes curr_var to stderr and re-raises.
ReportError ==
  /\ pc = "except"
  /\ stderr' = Append(stderr, AbortMessage(curr_var))
  /\ pc' = "finally_raising"
  /\ UNCHANGED <<version, args, input_obj, output_obj, loop_index, curr_var,
                 started, exception>>
  /\ UNCHANGED <<schemaVars, aggVars, ctorVars, convVars>>

\* An exception raised while the exception context was being handled.
RaiseDuring(context, type, msg) ==
  [status |-> "raised", type |-> type, msg |-> msg, context |-> context]

\* Fault: the workbook is closed only when no variable failed.
CloseOutput_OnlyOnSuccess ==
  /\ pc \in {"finally", "finally_raising"}
  /\ \/ /\ pc = "finally"
        /\ output_obj' = [output_obj EXCEPT !.open = FALSE, !.closes = @ + 1,
                                            !.stored = output_obj.sheets]
        /\ pc' = "done"
        /\ UNCHANGED exception
     \/ /\ pc = "finally"
        /\ output_obj' = [output_obj EXCEPT !.closes = @ + 1]
        /\ exception' = RaiseDuring(exception, "FileCreateError", <<"close">>)
        /\ pc' = "raised"
     \/ /\ pc = "finally_raising"
        /\ pc' = "raised"
        /\ UNCHANGED <<output_obj, exception>>
  /\ UNCHANGED <<version, args, input_obj, loop_index, curr_var, started,
                 stderr>>
  /\ UNCHANGED <<schemaVars, aggVars, ctorVars, convVars>>

\* Lines 178-182: the finally clause calls close() on the workbook, which stores
\* the worksheets in the output file or raises; main then returns or an
\* exception propagates.
CloseOutput ==
  /\ pc \in {"finally", "finally_raising"}
  /\ \/ /\ output_obj' = [output_obj EXCEPT !.open = FALSE, !.closes = @ + 1,
                                            !.stored = output_obj.sheets]
        /\ pc' = IF pc = "finally" THEN "done" ELSE "raised"
        /\ UNCHANGED exception
     \/ /\ output_obj' = [output_obj EXCEPT !.closes = @ + 1]
        /\ exception' = RaiseDuring(exception, "FileCreateError", <<"close">>)
        /\ pc' = "raised"
  /\ UNCHANGED <<version, args, input_obj, loop_index, curr_var, started,
                 stderr>>
  /\ UNCHANGED <<schemaVars, aggVars, ctorVars, convVars>>

MainNext ==
  \/ GetInputDataObj
  \/ GetOutputObj
  \/ ProcessVariable
  \/ LoopDone
  \/ ReportError
  \/ CloseOutput


(***************************************************************************)
(* scripts/xlsx_to_parquet.py: main                                        *)
(***************************************************************************)
\* Report files a search directory may hold: without rows, with rows of the
\* domain, and with a label that is in no version's domain.
AtlantisReport ==
  << [municipality_name |-> <<"A","t","l","a","n","t","i","s"," ","(","9","9","9","9",")">>,
      year_month |-> <<"2","0","2","3","0","1">>] >>
SampleReports ==
  { <<>>,
    << [municipality_name |-> <<"O","s","l","o"," ","(","0","3","0","1",")">>,
        year_month |-> <<"2","0","2","3","0","1">>] >>,
    << [municipality_name |-> <<"H","e","r","ø","y"," ","(","1","5","1","5",")">>,
        year_month |-> <<"2","0","2","4","1","2">>],
       [municipality_name |-> <<"S","v","a","l","b","a","r","d">>,
        year_month |-> <<"2","0","2","3","0","1">>] >>,
    AtlantisReport }

MaxDataFiles == 2
\* What search_dir.glob('**/*.xlsx') may list, in the order it lists it.
Globs == UNION {[1..n -> SampleReports] : n \in 0..MaxDataFiles}

ConvArgs ==
  [ search_dir : [is_dir : BOOLEAN, xlsx : Globs],
    out_file : [exists : BOOLEAN] ]

\* No file was written by this run.
NotWritten == [status |-> "not_written"]

\* pl.concat(all_dfs, how='vertical'): the rows of the frames, one frame after
\* the other.
RECURSIVE concat(_)
concat(dfs) ==
  IF dfs = <<>> THEN <<>> ELSE Head(dfs) \o concat(Tail(dfs))

\* The line main prints when it caught the exception e.
ErrorDuringProcessing(e) == <<"An error occurred during processing: ", e.type>>

ConvInit ==
  /\ version \in MaruVersion
  /\ convArgs \in ConvArgs
  /\ convPc = "preflight"
  /\ data_files = <<>>
  /\ all_dfs = <<>>
  /\ read_files = <<>>
  /\ parquet = NotWritten
  /\ stdout = <<>>

\* Lines 381-391: the pre-flight checks.
PreflightChecks ==
  /\ convPc = "preflight"
  /\ IF ~convArgs.search_dir.is_dir
     THEN /\ stdout' = Append(stdout, "Error: The search directory does not exist.")
          /\ convPc' = "returned"
     ELSE IF convArgs.out_file.exists
     THEN /\ stdout' = Append(stdout, "Error: The output file already exists.")
          /\ convPc' = "returned"
     ELSE /\ convPc' = "find"
          /\ UNCHANGED stdout
  /\ UNCHANGED <<version, convArgs, data_files, all_dfs, read_files, parquet>>
  /\ UNCHANGED <<schemaVars, aggVars, ctorVars, mainVars>>

\* Lines 393-401: the files of the search directory.
FindFiles ==
  /\ convPc = "find"
  /\ data_files' = convArgs.search_dir.xlsx
  /\ IF data_files' = <<>>
     THEN /\ stdout' = Append(stdout,
                            "No .xlsx files found in the specified directory.")
          /\ convPc' = "returned"
     ELSE /\ convPc' = "schema"
          /\ UNCHANGED stdout
  /\ UNCHANGED <<version, convArgs, all_dfs, read_files, parquet>>
  /\ UNCHANGED <<schemaVars, aggVars, ctorVars, mainVars>>

\* Lines 405-409: the source schema and the municipality schema; an exception
\* is caught and printed (lines 425-428).
BuildSchemas ==
  /\ convPc = "schema"
  /\ LET s == get_source_schema(version)
         m == IF s.status = "returned"
              THEN process_municipality_data(s.value) ELSE s
     IN  IF m.status = "raised"
         THEN /\ stdout' = Append(stdout, ErrorDuringProcessing(m))
              /\ convPc' = "returned"
         ELSE /\ convPc' = "files"
              /\ UNCHANGED stdout
  /\ UNCHANGED <<version, convArgs, data_files, all_dfs, read_files, parquet>>
  /\ UNCHANGED <<schemaVars, aggVars, ctorVars, mainVars>>

\* Fault: a file that fails is skipped and the next one is processed.
ProcessNextFile_SkipFailing ==
  /\ convPc = "files"
  /\ Len(read_files) < Len(data_files)
  /\ LET file == data_files[Len(read_files) + 1]
         base_schema == get_source_schema(version).value
         r == process_excel_file(
                file, base_schema,
                process_municipality_data(base_schema).value.municipality_schema)
     IN  /\ read_files' = Append(read_files, file)
         /\ IF r.status = "raised"
            THEN UNCHANGED <<all_dfs, stdout, convPc>>
            ELSE /\ all_dfs' = Append(all_dfs, r.value)
                 /\ UNCHANGED <<stdout, convPc>>
  /\ UNCHANGED <<version, convArgs, data_files, parquet>>
  /\ UNCHANGED <<schemaVars, aggVars, ctorVars, mainVars>>

\* Lines 411-414, one turn of the list comprehension: the next file is
\* processed and its frame joins all_dfs; an exception ends the comprehension,
\* is caught and printed (lines 425-428).
ProcessNextFile ==
  /\ convPc = "files"
  /\ Len(read_files) < Len(data_files)
  /\ LET file == data_files[Len(read_files) + 1]
         base_schema == get_source_schema(version).value
         r == process_excel_file(
                file, base_schema,
                process_municipality_data(base_schema).value.municipality_schema)
     IN  /\ read_files' = Append(read_files, file)
         /\ IF r.status = "raised"
            THEN /\ stdout' = Append(stdout, ErrorDuringProcessing(r))
                 /\ convPc' = "returned"
                 /\ UNCHANGED all_dfs
            ELSE /\ all_dfs' = Append(all_dfs, r.value)
                 /\ UNCHANGED <<stdout, convPc>>
  /\ UNCHANGED <<version, convArgs, data_files, parquet>>
  /\ UNCHANGED <<schemaVars, aggVars, ctorVars, mainVars>>

\* Lines 416-423: the frames are concatenated and written.  write_parquet may
\* raise, and then the output file is absent or incomplete; the exception is
\* caught and printed (lines 425-428).
WriteParquet ==
  /\ convPc = "files"
  /\ Len(read_files) = Len(data_files)
  /\ LET maru_df == concat(all_dfs)
     IN  \/ /\ parquet' = [status |-> "written", rows |-> maru_df]
            /\ UNCHANGED stdout
         \/ /\ parquet' \in {NotWritten, [status |-> "incomplete"]}
            /\ stdout' = Append(stdout, ErrorDuringProcessing(
                                  Raise("ComputeError", <<"write_parquet">>)))
  /\ convPc' = "returned"
  /\ UNCHANGED <<version, convArgs, data_files, all_dfs, read_files>>
  /\ UNCHANGED <<schemaVars, aggVars, ctorVars, mainVars>>

ConvNext ==
  \/ PreflightChecks
  \/ FindFiles
  \/ BuildSchemas
  \/ ProcessNextFile
  \/ WriteParquet
(***************************************************************************)
(* The specifications.  Each runs one part of the program; the variables   *)
(* of the other parts stay as they are.                                    *)
(***************************************************************************)
SchemaIdle ==
  /\ colsRes = NotCalled
  /\ extColsRes = NotCalled
  /\ schemaRes = NotCalled
  /\ munRes = NotCalled
  /\ rawFile = <<>>
  /\ fileRes = NotCalled

AggIdle ==
  /\ inputFrame = <<>>
  /\ aggCall = NotCalled
  /\ aggRes = NotCalled

CtorIdle ==
  /\ ctorArgs = [idle |-> TRUE]
  /\ newSpec = NotCalled

MainIdle ==
  /\ args = [idle |-> TRUE]
  /\ pc = "idle"
  /\ input_obj = <<>>
  /\ output_obj = NoWorkbook
  /\ loop_index = 1
  /\ curr_var = "<no variables processed yet>"
  /\ started = <<>>
  /\ stderr = <<>>
  /\ exception = NotCalled

ConvIdle ==
  /\ convArgs = [idle |-> TRUE]
  /\ convPc = "idle"
  /\ data_files = <<>>
  /\ all_dfs = <<>>
  /\ read_files = <<>>
  /\ parquet = NotWritten
  /\ stdout = <<>>

InitSchema == SchemaInit /\ AggIdle /\ CtorIdle /\ MainIdle /\ ConvIdle
InitAgg == AggInit /\ SchemaIdle /\ CtorIdle /\ MainIdle /\ ConvIdle
InitCtor == CtorInit /\ SchemaIdle /\ AggIdle /\ MainIdle /\ ConvIdle
InitMain == MainInit /\ SchemaIdle /\ AggIdle /\ CtorIdle /\ ConvIdle
InitConv == ConvInit /\ SchemaIdle /\ AggIdle /\ CtorIdle /\ MainIdle

SpecSchema == InitSchema /\ [][SchemaNext]_vars
SpecAgg == InitAgg /\ [][AggNext]_vars
SpecCtor == InitCtor /\ [][CtorNext]_vars
SpecMain == InitMain /\ [][MainNext]_vars
SpecConv == InitConv /\ [][ConvNext]_vars

\* main runs to its end: a step that can be taken is taken.
SpecMainLive == SpecMain /\ WF_vars(MainNext)

(***************************************************************************)
(* Properties of the schema calls                                          *)
(***************************************************************************)
OtherVersion(v) == IF v = V20241128 THEN V20250304 ELSE V20241128

BatteryAndShorePower ==
  {ColsFor20250304.kwh_battery, ColsFor20250304.kwh_shore_power}

IsPrefix(a, b) == Len(a) <= Len(b) /\ \A i \in DOMAIN a : a[i] = b[i]

EnumColumns(schema) == {c \in DOMAIN schema : schema[c].kind = "Enum"}

\* C2: the schema of version 20241128 has no battery-energy and no
\* shore-power-energy column; the schema of version 20250304 has both, named
\* sum_kwh_battery and sum_kwh_shore_power, of 64-bit float type.
C2_BatteryColumnsFollowVersion ==
  schemaRes.status = "returned" =>
    /\ version = V20241128 =>
         BatteryAndShorePower \cap DOMAIN schemaRes.value = {}
    /\ version = V20250304 =>
         \A c \in {"sum_kwh_battery", "sum_kwh_shore_power"} :
           /\ c \in BatteryAndShorePower
           /\ c \in DOMAIN schemaRes.value
           /\ schemaRes.value[c] = Float64

\* C3: for every supported version, two distinct labels of the municipality
\* domain get different names from process_municipality_data.
C3_SplitInjectiveOnNames ==
  munRes.status = "returned" =>
    LET cats == schemaRes.value["municipality_name"].categories
        df == munRes.value.municipality_df
    IN  \A i, j \in DOMAIN cats :
          cats[i] # cats[j] => df[i].municipality_name # df[j].municipality_name

\* C6: every categorical column has, in both versions, an enum whose categories
\* for 20241128 are a prefix of its categories for 20250304.
C6_DomainsAppendOnly ==
  schemaRes.status = "returned" =>
    LET earlier == IF version = V20241128 THEN schemaRes.value
                   ELSE get_source_schema(V20241128).value
        later == IF version = V20250304 THEN schemaRes.value
                 ELSE get_source_schema(V20250304).value
    IN  /\ EnumColumns(earlier) = EnumColumns(later)
        /\ \A c \in EnumColumns(earlier) :
             IsPrefix(earlier[c].categories, later[c].categories)

\* C6 witness: the later schema was built and its phase, voyage type,
\* municipality and version domains are longer than the earlier ones.
C6_Witness ==
  /\ version = V20250304
  /\ schemaRes.status = "returned"
  /\ \A c \in {"phase", "voyage_type", "municipality_name", "version"} :
       Len(schemaRes.value[c].categories) > Len(schema_base[c].categories)

\* An error message names the valid set when every version tag occurs in it.
NamesValidVersions(msg) == \A v \in MaruVersion : v \in Range(msg)

\* C7: get_maru_cols_original and get_maru_cols, called with a tag that is no
\* version, fail with an error whose message names the valid versions.
C7_InvalidVersionErrorNamesValidSet ==
  \A r \in {colsRes, extColsRes} :
    (version \notin MaruVersion /\ r.status # "not_called") =>
      (r.status = "raised" /\ NamesValidVersions(r.msg))

\* C8: get_source_schema, called with a tag that is no version, raises the
\* version error and returns no schema.
C8_UnknownVersionGetsNoSchema ==
  (version \notin MaruVersion /\ schemaRes.status # "not_called") =>
    (schemaRes.status = "raised" /\ schemaRes.type = "ValueError")

\* C8 witness: get_source_schema was called with a tag that is no version.
C8_Witness ==
  version \notin MaruVersion /\ schemaRes.status = "raised"

\* C9: in the record get_maru_cols_original returns, kwh_battery and
\* kwh_shore_power are None for 20241128 and names for 20250304, and every other
\* field has the same name, not None, for both versions.
C9_ColumnLabelsFollowVersion ==
  colsRes.status = "returned" =>
    LET cols == colsRes.value
        other == get_maru_cols_original(OtherVersion(version)).value
        optional == {"kwh_battery", "kwh_shore_power"}
    IN  /\ version = V20241128 => \A f \in optional : cols[f] = None
        /\ version = V20250304 =>
             /\ cols.kwh_battery = "sum_kwh_battery"
             /\ cols.kwh_shore_power = "sum_kwh_shore_power"
        /\ DOMAIN cols = DOMAIN other
        /\ \A f \in DOMAIN cols \ optional : cols[f] # None /\ cols[f] = other[f]

\* C9 witness: the labels of the later version were returned, with both
\* optional fields named.
C9_Witness ==
  /\ version = V20250304
  /\ colsRes.status = "returned"
  /\ colsRes.value.kwh_battery # None
  /\ colsRes.value.kwh_shore_power # None

(***************************************************************************)
(* Properties of the transforms                                            *)
(***************************************************************************)
CommonKeys ==
  {"municipality_name", "vessel_type", "municipality_voyage_type", "year"}

\* The grouping keys and the source column of each variable of the spec table:
\* the common keys and the extra key of the variable, and for the energy per
\* voyage type the voyage type in place of the municipality voyage type.
GroupingOf(var) ==
  CASE var = "maru_energibehov_sum_kwh" ->
         [keys |-> CommonKeys, source |-> "sum_kwh"]
    [] var = "maru_energibehov_per_fase_kwh" ->
         [keys |-> CommonKeys \cup {"phase"}, source |-> "sum_kwh"]
    [] var = "maru_energibehov_per_gt_kwh" ->
         [keys |-> CommonKeys \cup {"gt_group"}, source |-> "sum_kwh"]
    [] var = "maru_energibehov_per_voyage_type_kwh" ->
         [keys |-> {"municipality_name", "vessel_type", "year", "voyage_type"},
          source |-> "sum_kwh"]
    [] var = "maru_fuel_sum_tonn" ->
         [keys |-> CommonKeys, source |-> "sum_fuel"]
    [] var = "maru_fuel_per_gt_tonn" ->
         [keys |-> CommonKeys \cup {"gt_group"}, source |-> "sum_fuel"]
    [] var = "maru_co2_sum_tonn" ->
         [keys |-> CommonKeys, source |-> "sum_co2"]

\* Two rows have the columns cols and agree in them.
SameIn(a, b, cols) ==
  /\ cols \subseteq DOMAIN a
  /\ cols \subseteq DOMAIN b
  /\ \A c \in cols : a[c] = b[c]

\* The sum of column col over the rows of frame that agree with row in cols.
RECURSIVE TotalWhere(_, _, _, _)
TotalWhere(frame, row, cols, col) ==
  IF frame = <<>> THEN 0
  ELSE (IF SameIn(Head(frame), row, cols) THEN Head(frame)[col] ELSE 0)
         + TotalWhere(Tail(frame), row, cols, col)

\* The result holds one row for each combination of keys in the input, with
\* the columns keys and one more, which holds the sum of source over the input
\* rows of that combination.
IsGroupedSum(result, input, keys, source) ==
  /\ \A i \in DOMAIN input :
       Cardinality({k \in DOMAIN result.rows :
                      SameIn(result.rows[k], input[i], keys)}) = 1
  /\ \A k \in DOMAIN result.rows :
       LET r == result.rows[k]
       IN  /\ keys \subseteq DOMAIN r
           /\ Cardinality(DOMAIN r \ keys) = 1
           /\ \E i \in DOMAIN input : SameIn(r, input[i], keys)
           /\ \A c \in DOMAIN r \ keys :
                r[c] = TotalWhere(input, r, keys, source)

\* The spec of the table whose processing function was called, if any.
CalledSpecs ==
  {stavanger_output_specs_202508[i][2] : i \in
     {j \in DOMAIN stavanger_output_specs_202508 :
        /\ aggCall.status = "called"
        /\ stavanger_output_specs_202508[j][2].processing_func
             = aggCall.processing_func}}

C10_VoyageTypeReplacesMunicipalityVoyageType ==
  ( /\ aggCall.status = "called"
    /\ aggCall.processing_func.func = "_process_energy_per_voyage_type_kwh"
    /\ aggRes.status = "returned" ) =>
    LET keys == {"municipality_name", "vessel_type", "year", "voyage_type"}
    IN  /\ Range(aggRes.value.columns) \ keys
             = {IF aggCall.output_value_col = None THEN "sum_kwh"
                ELSE aggCall.output_value_col}
        /\ "municipality_voyage_type" \notin Range(aggRes.value.columns)
        /\ \A k \in DOMAIN aggRes.value.rows :
             "municipality_voyage_type" \notin DOMAIN aggRes.value.rows[k]
        /\ IsGroupedSum(aggRes.value, inputFrame, keys, "sum_kwh")

\* C10 witness: two rows that differ only in the municipality voyage type gave
\* one row with the sum of both.
C10_Witness ==
  /\ inputFrame = << BaseKey @@ Measures100,
                     [BaseKey EXCEPT !.municipality_voyage_type = "Transit"]
                       @@ Measures50 >>
  /\ aggCall.status = "called"
  /\ aggCall.processing_func.func = "_process_energy_per_voyage_type_kwh"
  /\ aggCall.output_value_col = None
  /\ aggRes.status = "returned"
  /\ Len(aggRes.value.rows) = 1
  /\ aggRes.value.rows[1].sum_kwh = 150

(***************************************************************************)
(* Properties of main of maru_parquet_to_lokfram_variables                 *)
(***************************************************************************)
\* C4: the variables are started in the insertion order of the spec table, one
\* worksheet is created for each in that order, and a variable is started only
\* when every variable before it has been written.
C4_VariablesInTableOrder ==
  /\ Len(started) <= Len(stavanger_output_specs_202508)
  /\ \A k \in DOMAIN started : started[k] = stavanger_output_specs_202508[k][1]
  /\ \A k \in DOMAIN output_obj.sheets :
       /\ k <= Len(started)
       /\ output_obj.sheets[k].name
            = stavanger_output_specs_202508[k][2].sheet_name
  /\ Len(started) <= Len(output_obj.sheets) + 1

\* C4 witness: main finished with a worksheet for every variable of the table.
C4_Witness ==
  /\ pc = "done"
  /\ Len(output_obj.sheets) = Len(stavanger_output_specs_202508)
  /\ Len(output_obj.sheets) > 1

\* The variable in flight: the one after those already written.
InFlight == stavanger_output_specs_202508[Len(output_obj.sheets) + 1][1]

\* C5: when processing a variable fails, stderr names exactly that variable
\* before the exception leaves main, the exception does leave main (as itself,
\* or as the context of the exception of a failing close()), and no variable
\* after it is started or written.
C5_FailFastReportsInFlightVariable ==
  /\ [](stderr # <<>> =>
          /\ exception.status = "raised"
          /\ stderr = <<AbortMessage(InFlight)>>
          /\ started[Len(started)] = InFlight)
  /\ []((pc = "raised" /\ Len(started) > Len(output_obj.sheets))
          => Len(stderr) = 1)
  /\ [](pc = "done" => exception.status = "not_called")
  /\ [][exception.status = "raised" =>
          /\ started' = started
          /\ output_obj'.sheets = output_obj.sheets
          /\ \/ exception' = exception
             \/ /\ "context" \in DOMAIN exception'
                /\ exception'.context = exception]_vars
  /\ (pc = "except") ~> (pc = "raised" /\ exception.status = "raised")

\* C5 witness: the fourth variable failed in its processing function, the
\* failure was reported and the exception left main.
C5_Witness ==
  /\ pc = "raised"
  /\ exception.status = "raised"
  /\ exception.type = "DuplicateError"
  /\ Len(started) = 4
  /\ Len(output_obj.sheets) = 3
  /\ Len(stderr) = 1


(***************************************************************************)
(* Further properties of the transforms                                    *)
(***************************************************************************)
\* The source column of the function called: the energy, the fuel, or the
\* column of the selected gas.
SourceOf(f) ==
  CASE f.func \in {"_process_energy_sum_kwh", "_process_energy_per_phase_kwh",
                   "_process_energy_per_gt_kwh",
                   "_process_energy_per_voyage_type_kwh"} -> MaruCol.energy_kwh
    [] f.func \in {"_process_fuel_sum_tonn", "_process_fuel_per_gt_tonn"} ->
         MaruCol.fuel
    [] f.ghg = "co2" -> MaruCol.co2
    [] f.ghg = "ch4" -> MaruCol.ch4
    [] f.ghg = "n2o" -> MaruCol.n2o

\* The declared output value column of the call made.
DeclaredOutputCol ==
  OutputCol(aggCall.output_value_col, SourceOf(aggCall.processing_func))

\* The rows of a frame do not decrease in the lexicographic order over its
\* columns other than out, taken in the order of the columns.
NonDecreasing(schema, frame, out) ==
  LET by == SelectSeq(frame.columns, LAMBDA c : c # out)
  IN  \A k \in 1..(Len(frame.rows) - 1) :
        ~RowBefore(schema, by, frame.rows[k + 1], frame.rows[k])

\* The input frame with its rows i and i + 1 exchanged.  Every order of the rows
\* is reached by such exchanges, and every frame is an input.
Exchanged(i) ==
  [inputFrame EXCEPT ![i] = inputFrame[i + 1], ![i + 1] = inputFrame[i]]

\* C11: the rows of a result do not decrease in the lexicographic order over
\* all columns but the declared output value column, and the result is the same
\* when two neighbouring input rows are exchanged, so for every order of the
\* input rows.
C11_ResultSortedByAllButOutput ==
  aggRes.status = "returned" =>
    /\ NonDecreasing(TypedSchema(version), aggRes.value, DeclaredOutputCol)
    /\ \A i \in 1..(Len(inputFrame) - 1) :
         CallProcessingFunc(aggCall.processing_func, TypedSchema(version),
                            Exchanged(i), get_maru_cols(version).value,
                            aggCall.output_value_col) = aggRes

\* C11 witness: the energy sum of a row of 2023 followed by a row of 2022 has
\* two rows, that of 2022 first.
C11_Witness ==
  /\ Len(inputFrame) = 2
  /\ inputFrame[1].year = 2023
  /\ inputFrame[2].year = 2022
  /\ aggCall.status = "called"
  /\ aggCall.processing_func.func = "_process_energy_sum_kwh"
  /\ aggRes.status = "returned"
  /\ Len(aggRes.value.rows) = 2
  /\ aggRes.value.rows[1].year = 2022
  /\ aggRes.value.rows[2].year = 2023

(***************************************************************************)
(* Properties of the output variable specs                                 *)
(***************************************************************************)
\* C12: constructing an OutputVarSpec fails with an error when the sheet name
\* has more than 31 characters and succeeds when it has 31 or fewer, and every
\* spec of the spec table has a sheet name of at most 31 characters.
C12_SheetNameAtMost31 ==
  /\ newSpec.status # "not_called" =>
       /\ Len(ctorArgs.sheet_name) > 31 =>
            newSpec.status = "raised" /\ newSpec.type = "ValueError"
       /\ Len(ctorArgs.sheet_name) <= 31 =>
            /\ newSpec.status = "returned"
            /\ newSpec.value.sheet_name = ctorArgs.sheet_name
            /\ newSpec.value.name = ctorArgs.name
  /\ \A i \in DOMAIN SpecTableItems :
       /\ SpecTableItems[i][2].status = "returned"
       /\ Len(stavanger_output_specs_202508[i][2].sheet_name) <= 31

\* C12 witness: a spec with a sheet name of 32 characters was refused.
C12_Witness ==
  /\ newSpec.status = "raised"
  /\ Len(ctorArgs.sheet_name) = 32


\* C13: _select_ghg_value_col returns the CO2, CH4 or N2O column label for the
\* selector CO2, CH4 or N2O, and raises for every other selector; it returns
\* no empty and no absent name.  A transform of a gas sums the column selected.
C13_GhgSelectorTotalOrRaises ==
  (aggCall.status = "called" /\ aggCall.processing_func.ghg # None) =>
    LET g == aggCall.processing_func.ghg
        cols == get_maru_cols(version).value
        sel == _select_ghg_value_col(g, cols)
    IN  /\ g = "co2" => sel = Return(cols.co2)
        /\ g = "ch4" => sel = Return(cols.ch4)
        /\ g = "n2o" => sel = Return(cols.n2o)
        /\ g \notin {"co2", "ch4", "n2o"} =>
             /\ sel.status = "raised"
             /\ aggRes.status = "raised"
             /\ aggRes.type = "ValueError"
        /\ sel.status = "returned" => sel.value \notin {"", None}
        /\ (aggRes.status = "returned" /\ aggCall.output_value_col = None) =>
             aggRes.value.columns[Len(aggRes.value.columns)] = sel.value

\* C13 witness: a transform of a gas was called with a selector that is no
\* member of GHG, and raised.
C13_Witness ==
  /\ aggCall.status = "called"
  /\ aggCall.processing_func.ghg \notin GHG \cup {None}
  /\ aggRes.status = "raised"

(***************************************************************************)
(* Further properties of main of maru_parquet_to_lokfram_variables         *)
(***************************************************************************)
\* The name of the summed column of a worksheet's frame: the last column.
ValueColumnOf(sheet) == sheet.frame.columns[Len(sheet.frame.columns)]

\* The name the summed column of a spec gets under the override eff.
ValueColumnFor(spec, eff) ==
  IF eff = None THEN SourceOf(spec.processing_func) ELSE eff

\* C14: the summed column of every worksheet has the name of the source column
\* when there is no override and the name of the override otherwise, where the
\* override is the caller's output_value_col if that is given and not empty,
\* else the spec's output_value_col, else none.
C14_OutputColumnIsOverrideOrSource ==
  \A i \in DOMAIN output_obj.sheets :
    LET spec == output_var_specs[i][2]
        eff == IF args.output_value_col \notin {None, ""}
               THEN args.output_value_col
               ELSE spec.output_value_col
    IN  /\ ValueColumnOf(output_obj.sheets[i]) = ValueColumnFor(spec, eff)
        /\ \A k \in DOMAIN output_obj.sheets[i].frame.rows :
             ValueColumnFor(spec, eff)
               \in DOMAIN output_obj.sheets[i].frame.rows[k]

\* C14 as stated: the override is the caller's output_value_col whenever it is
\* given, also when it is the empty string.
C14_AsStated ==
  \A i \in DOMAIN output_obj.sheets :
    LET spec == output_var_specs[i][2]
        eff == IF args.output_value_col # None
               THEN args.output_value_col
               ELSE spec.output_value_col
    IN  ValueColumnOf(output_obj.sheets[i]) = ValueColumnFor(spec, eff)

\* C14 witness: main was run with an empty output_value_col and wrote a
\* worksheet whose summed column has the name of the source column.
C14_Witness ==
  /\ args.output_value_col = ""
  /\ Len(output_obj.sheets) >= 1
  /\ ValueColumnOf(output_obj.sheets[1]) = MaruCol.energy_kwh
  /\ Len(output_obj.sheets[1].frame.rows) >= 1

\* C19: the spec table has exactly one entry for every output variable name of
\* StavangerOutputVarNames, the key of every entry is the name of its spec, and
\* no two entries have the same sheet name: a run of main that went through
\* the table has begun every declared variable once, and its worksheets have
\* different names.
C19_TableCoversEveryVariable ==
  LET table == stavanger_output_specs_202508
      declared == {VAR_NAMES[k] : k \in DOMAIN VAR_NAMES}
  IN  /\ \A i \in DOMAIN started :
           started[i] = table[i][1] /\ table[i][1] = table[i][2].name
      /\ \A i, j \in DOMAIN output_obj.sheets :
           output_obj.sheets[i].name = output_obj.sheets[j].name => i = j
      /\ pc = "done" =>
           /\ Range(started) = declared
           /\ Len(started) = Cardinality(declared)
           /\ {table[i][1] : i \in DOMAIN table} = declared

\* The input file exists and has a row for the municipality asked for.
InputUsable ==
  /\ args.in_file.exists
  /\ \E i \in DOMAIN args.in_file.rows :
       args.in_file.rows[i].municipality_name = args.municipality_name

\* C20: a variable is processed only if the input was loaded with at least one
\* row for the municipality and the output file did not exist; a missing input
\* file or an input without a row for the municipality raises and no workbook
\* is created; an output file that exists raises FileExistsError and no
\* workbook is created for it.
C20_NoProcessingWithoutInputAndFreshOutput ==
  /\ started # <<>> =>
       /\ InputUsable
       /\ Len(input_obj) >= 1
       /\ \A i \in DOMAIN input_obj :
            input_obj[i].municipality_name = args.municipality_name
       /\ ~args.out_file.exists
  /\ (~InputUsable /\ pc # "get_input") =>
       /\ pc = "raised"
       /\ exception.status = "raised"
       /\ exception.type
            = (IF args.in_file.exists THEN "ValueError" ELSE "FileNotFoundError")
  /\ (InputUsable /\ args.out_file.exists /\ pc \notin {"get_input", "get_output"}) =>
       /\ pc = "raised"
       /\ exception.status = "raised"
       /\ exception.type = "FileExistsError"
  /\ (~InputUsable \/ args.out_file.exists) =>
       /\ output_obj = NoWorkbook
       /\ started = <<>>

\* C20 witness: the input was loaded, the output file existed, and main ended
\* with FileExistsError and without a workbook.
C20_Witness ==
  /\ InputUsable
  /\ args.out_file.exists
  /\ Len(input_obj) >= 1
  /\ pc = "raised"
  /\ exception.status = "raised"
  /\ exception.type = "FileExistsError"
  /\ output_obj = NoWorkbook

(***************************************************************************)
(* Further properties of the schema and the municipality split            *)
(***************************************************************************)
\* The position of a label in the municipality domain of the schema.
DomainIndex(label) ==
  LET cats == schemaRes.value["municipality_name"].categories
  IN  CHOOSE j \in DOMAIN cats : cats[j] = label

InDomain(label) ==
  label \in Range(schemaRes.value["municipality_name"].categories)

\* The name and number a report row with the label gets at row level.
RowLevel(label) ==
  ExcelRow([municipality_name |-> label,
            year_month |-> <<"2","0","2","3","0","1">>])

\* The row-level pair agrees with the schema-level pair: the same name, and the
\* same number or, for a label without a number, null where the schema-level
\* number is the empty string.
AgreesWithSchemaLevel(row, srow) ==
  /\ row.municipality_name = srow.municipality_name
  /\ \/ row.municipality_number = srow.municipality_number
     \/ row.municipality_number = Null /\ srow.municipality_number = <<>>

\* C15: for every label of the municipality domain, the name computed at row
\* level is the name computed at schema level, and the number is the same
\* except that a label without a number has a null number at row level and
\* the empty string at schema level; the cast to the derived domains does not
\* fail for a label of the domain.  (The domain is gone through once the split
\* has returned; reading a file does not change it.)
C15_RowLevelAgreesWithSchemaLevel ==
  /\ (munRes.status = "returned" /\ fileRes.status = "not_called") =>
       LET cats == schemaRes.value["municipality_name"].categories
           ms == munRes.value.municipality_schema
       IN  \A j \in DOMAIN cats :
             /\ AgreesWithSchemaLevel(RowLevel(cats[j]),
                                      munRes.value.municipality_df[j])
             /\ ~CastFails(RowLevel(cats[j]).municipality_name,
                           ms.municipality_name)
             /\ ~CastFails(RowLevel(cats[j]).municipality_number,
                           ms.municipality_number)
  /\ fileRes.status = "returned" =>
       \A i \in DOMAIN fileRes.value :
         /\ InDomain(rawFile[i].municipality_name)
         /\ AgreesWithSchemaLevel(
              fileRes.value[i],
              munRes.value.municipality_df[DomainIndex(rawFile[i].municipality_name)])
  /\ fileRes.status = "raised" =>
       \E i \in DOMAIN rawFile : ~InDomain(rawFile[i].municipality_name)

\* C15 as stated: the pair computed at row level equals the pair computed at
\* schema level.
C15_AsStated ==
  fileRes.status = "returned" =>
    \A i \in DOMAIN fileRes.value :
      LET srow == munRes.value.municipality_df[DomainIndex(rawFile[i].municipality_name)]
      IN  /\ fileRes.value[i].municipality_name = srow.municipality_name
          /\ fileRes.value[i].municipality_number = srow.municipality_number

\* C15 witness: a file with a row of Svalbard and a row of Herøy (1515) was
\* read; the rows have a null number and the name Herøy (1515).
C15_Witness ==
  /\ fileRes.status = "returned"
  /\ Len(rawFile) = 2
  /\ rawFile[1].municipality_name = <<"S","v","a","l","b","a","r","d">>
  /\ fileRes.value[1].municipality_number = Null
  /\ rawFile[2].municipality_name
       = <<"H","e","r","ø","y"," ","(","1","5","1","5",")">>
  /\ fileRes.value[2].municipality_name = rawFile[2].municipality_name
  /\ fileRes.value[2].municipality_number = <<"1","5","1","5">>

Heroy1515 == <<"H","e","r","ø","y"," ","(","1","5","1","5",")">>
Heroy1818 == <<"H","e","r","ø","y"," ","(","1","8","1","8",")">>

\* A label ends in a space and a number of four digits in parentheses.
HasCode(label) ==
  /\ Len(label) >= 7
  /\ label[Len(label)] = ")"
  /\ label[Len(label) - 5] = "("
  /\ label[Len(label) - 6] = " "

\* The label without its number, and the number.
BareName(label) ==
  IF HasCode(label) THEN SubSeq(label, 1, Len(label) - 7) ELSE label
CodeOf(label) ==
  IF HasCode(label) THEN SubSeq(label, Len(label) - 4, Len(label) - 1) ELSE <<>>

\* C16: Herøy (1515) and Herøy (1818) get the names Herøy (1515) and
\* Herøy (1818), their labels, and the numbers 1515 and 1818; every label whose
\* bare name is not Herøy gets its bare name, without the number.
C16_HeroyKeepsLabelOthersBareName ==
  munRes.status = "returned" =>
    LET cats == schemaRes.value["municipality_name"].categories
        df == munRes.value.municipality_df
    IN  /\ \A j \in DOMAIN cats :
             /\ cats[j] = Heroy1515 =>
                  /\ df[j].municipality_name = Heroy1515
                  /\ df[j].municipality_number = <<"1","5","1","5">>
             /\ cats[j] = Heroy1818 =>
                  /\ df[j].municipality_name = Heroy1818
                  /\ df[j].municipality_number = <<"1","8","1","8">>
             /\ BareName(cats[j]) # <<"H","e","r","ø","y">> =>
                  /\ df[j].municipality_name = BareName(cats[j])
                  /\ df[j].municipality_number = CodeOf(cats[j])
        /\ Heroy1515 \in Range(cats)
        /\ Heroy1818 \in Range(cats)

\* C16 witness: the split returned rows with the names Herøy (1515) and
\* Herøy (1818), and a row with the name Oslo and the number 0301.
C16_Witness ==
  /\ munRes.status = "returned"
  /\ LET df == munRes.value.municipality_df
     IN  /\ \E i \in DOMAIN df : df[i].municipality_name = Heroy1515
         /\ \E j \in DOMAIN df : df[j].municipality_name = Heroy1818
         /\ \E k \in DOMAIN df :
              df[k] = [municipality_name |-> <<"O","s","l","o">>,
                       municipality_number |-> <<"0","3","0","1">>]

\* The first position of a value in a sequence.
FirstIndex(s, v) ==
  LET at == {i \in DOMAIN s : s[i] = v}
  IN  CHOOSE i \in at : \A k \in at : i <= k

\* dom holds each value of vals once, in the order of the first occurrences.
IsFirstOccurrenceOrder(dom, vals) ==
  /\ Range(dom) = Range(vals)
  /\ \A a \in 1..(Len(dom) - 1) :
       FirstIndex(vals, dom[a]) < FirstIndex(vals, dom[a + 1])

\* C17: the name domain and the number domain process_municipality_data derives
\* hold each extracted value once, in the order of its first occurrence in the
\* municipality domain; the number domain holds the empty string where the
\* first label without a number, Svalbard, comes.  (The domains are gone
\* through once the split has returned; reading a file does not change them.)
C17_DerivedDomainsInFirstOccurrenceOrder ==
  (munRes.status = "returned" /\ fileRes.status = "not_called") =>
    LET cats == schemaRes.value["municipality_name"].categories
        df == munRes.value.municipality_df
        names == [j \in DOMAIN df |-> df[j].municipality_name]
        numbers == [j \in DOMAIN df |-> df[j].municipality_number]
        ms == munRes.value.municipality_schema
        svalbard == FirstIndex(cats, <<"S","v","a","l","b","a","r","d">>)
    IN  /\ Len(df) = Len(cats)
        /\ IsFirstOccurrenceOrder(ms.municipality_name.categories, names)
        /\ IsFirstOccurrenceOrder(ms.municipality_number.categories, numbers)
        /\ \A j \in DOMAIN cats : ~HasCode(cats[j]) => j = svalbard
        /\ numbers[svalbard] = <<>>
        /\ \E a \in DOMAIN ms.municipality_number.categories :
             /\ ms.municipality_number.categories[a] = <<>>
             /\ a = Cardinality({numbers[j] : j \in 1..svalbard})

\* C17 witness: the split of the later version returned; two labels share the
\* name Våler, so the name domain is shorter than the municipality domain, and
\* the number domain holds the empty string.
C17_Witness ==
  /\ version = V20250304
  /\ munRes.status = "returned"
  /\ Len(munRes.value.municipality_schema.municipality_name.categories)
       < Len(munRes.value.municipality_df)
  /\ <<>> \in Range(munRes.value.municipality_schema.municipality_number.categories)

\* C18: the columns of the schema of a version are the labels of that version
\* that are not None: every such label, the time in seconds among them, has a
\* type in the schema, and the schema has no other column.
C18_SchemaColumnsAreTheLabels ==
  schemaRes.status = "returned" =>
    LET cols == get_maru_cols_original(version).value
    IN  DOMAIN schemaRes.value = {cols[f] : f \in DOMAIN cols} \ {None}

(***************************************************************************)
(* Claims about the end of the two main functions.                         *)
(***************************************************************************)
\* main got its workbook: the input was usable and the output file was new.
WorkbookObtained ==
  /\ InputUsable
  /\ ~args.out_file.exists
  /\ pc \notin {"get_input", "get_output"}

\* The worksheets of the variables that were processed and written, in the
\* order of the table.
CompletedSheets(n) ==
  [k \in 1..n |-> stavanger_output_specs_202508[k][2].sheet_name]

\* C21: once main has its workbook, close() is called on it exactly once on
\* every path, after all variables succeeded and after a variable failed; a
\* close() that succeeds stores the worksheets of every variable completed
\* before it; nothing is written to the workbook and it is not closed again
\* after the close; a run without a workbook never closes one.
C21_WorkbookClosedExactlyOnce ==
  /\ [](output_obj.closes <= 1)
  /\ [](~WorkbookObtained => output_obj.closes = 0 /\ output_obj.stored = <<>>)
  /\ []((WorkbookObtained /\ pc \in {"done", "raised"})
          => output_obj.closes = 1)
  /\ []((output_obj.closes = 1 /\ ~output_obj.open) =>
          /\ output_obj.stored = output_obj.sheets
          /\ Len(output_obj.stored) >= Len(started) - 1
          /\ (pc = "done" => Len(output_obj.stored) = Len(started))
          /\ [k \in DOMAIN output_obj.stored |-> output_obj.stored[k].name]
               = CompletedSheets(Len(output_obj.stored)))
  /\ [][output_obj.closes >= 1 => output_obj' = output_obj]_vars
  /\ [][output_obj'.closes = output_obj.closes + 1
          => pc \in {"finally", "finally_raising"}]_vars
  /\ WorkbookObtained ~> (output_obj.closes = 1)

\* C21 witness: the fourth variable failed, the workbook was closed once, and
\* the worksheets of the three variables before it are in the output file.
C21_Witness ==
  /\ WorkbookObtained
  /\ pc = "raised"
  /\ Len(started) = 4
  /\ Len(stderr) = 1
  /\ output_obj.closes = 1
  /\ ~output_obj.open
  /\ Len(output_obj.stored) = 3

\* The pre-flight checks pass: the directory is there and the output is not.
PreflightPasses ==
  convArgs.search_dir.is_dir /\ ~convArgs.out_file.exists

\* main returns before the processing: a pre-flight check fails or no file is
\* found.
GivesUpEarly == ~PreflightPasses \/ convArgs.search_dir.xlsx = <<>>

\* The outcomes of processing the files of the search directory, each on its
\* own, under the schemas of the version.
ReportOutcomes ==
  LET base_schema == get_source_schema(version).value
      municipality_schema ==
        process_municipality_data(base_schema).value.municipality_schema
  IN  [i \in DOMAIN convArgs.search_dir.xlsx |->
         process_excel_file(convArgs.search_dir.xlsx[i], base_schema,
                            municipality_schema)]

\* C22: the output file is written only when the search directory exists, the
\* output file did not exist, at least one file was found and every file found
\* was processed without error, and then it holds the rows of all of them in
\* the order found; when the directory is missing, the output exists or no file
\* is found, no file is processed and nothing is written; when a file fails,
\* nothing is written and no file after it is processed.
C22_WrittenOnlyAfterAllFilesProcessed ==
  LET found == convArgs.search_dir.xlsx
      outcomes == ReportOutcomes
      failing == {i \in DOMAIN found : outcomes[i].status = "raised"}
      first == CHOOSE i \in failing : \A j \in failing : i <= j
  IN  /\ (convPc \in {"preflight", "find", "schema"} \/ GivesUpEarly) =>
           /\ read_files = <<>>
           /\ all_dfs = <<>>
           /\ parquet = NotWritten
      /\ (convPc # "idle" /\ GivesUpEarly) =>
           /\ convPc \in {"preflight", "find", "returned"}
           /\ convPc = "find" => PreflightPasses
           /\ convPc = "returned" => Len(stdout) = 1
      /\ (convPc \in {"files", "returned"} /\ ~GivesUpEarly) =>
           /\ read_files = SubSeq(found, 1, Len(read_files))
           /\ parquet # NotWritten =>
                /\ read_files = found
                /\ failing = {}
                /\ all_dfs = [i \in DOMAIN found |-> outcomes[i].value]
           /\ parquet.status = "written" => parquet.rows = concat(all_dfs)
           /\ failing # {} =>
                /\ parquet = NotWritten
                /\ Len(read_files) <= first
                /\ Len(all_dfs) < first
                /\ Len(read_files) = first =>
                     convPc = "returned" /\ Len(stdout) = 1

\* C22 witness: of two files found the first failed; main returned after
\* printing the error, the second file was not processed and nothing was
\* written.
C22_Witness ==
  /\ convPc = "returned"
  /\ Len(convArgs.search_dir.xlsx) = 2
  /\ ReportOutcomes[1].status = "raised"
  /\ read_files = <<AtlantisReport>>
  /\ all_dfs = <<>>
  /\ parquet = NotWritten
  /\ stdout = <<ErrorDuringProcessing(
                  Raise("InvalidOperationError",
                        <<"read_excel: schema_overrides">>))>>
=============================================================================
